---------------------------- MODULE Spec2Model ----------------------------
(***************************************************************************)
(* A model of pg-save: the query planner (pg_save/querying), the shared    *)
(* DataFrame normalisation (pg_save/utils/pd.py), the exporters            *)
(* (pg_save/export) and the command-line entry points (pg_save/cli).       *)
(*                                                                         *)
(* Text is modelled character by character: a Python str is a sequence of  *)
(* one-character strings, so that strip(), lower(), the `in` substring     *)
(* test, split(".") and f-string interpolation are computed, not assumed.  *)
(***************************************************************************)
EXTENDS Integers, Sequences, FiniteSets, TLC

VARIABLES
    call,       \* the last planner call: [op, text, flag]
    sent,       \* the statements that call sent to the source, in order
    result,     \* what that call gave its caller: [status, frame, crs]
    committed,  \* verbs of the state-changing statements committed to the source
    source,     \* what the source held and did during that call: [desc, n, fail]
    frame,      \* the DataFrame at hand (normalisation and export)
    prev,       \* the DataFrame before the last beautify_dataframe call
    given,      \* the DataFrame as it was handed to the last call on it
    passes,     \* how many times beautify_dataframe has been applied to it
    xcall,      \* the last export call: [op, target, fmt, crs, geometry_column]
    xout,       \* its outcome: [status, writers, path, content]
    reports,    \* what the last export call logged
    procs,      \* the command-line operations: [cmd, pc, conn, exit]
    session,    \* the interactive session: its settings and its last input
    renaming    \* column labels before and after beautify_dataframe's renaming

vars ==
    <<call, sent, result, committed, source, frame, prev, given, passes,
      xcall, xout, reports, procs, session, renaming>>

planner_vars == <<call, sent, result, committed, source>>
frame_vars == <<frame, prev, given, passes>>
export_vars == <<xcall, xout, reports>>

-----------------------------------------------------------------------------
(* Bounds of the model.                                                    *)

\* A query text is a concatenation of at most MaxFragments fragments.
MaxFragments == 2
\* A result set has no or MaxRows rows.
MaxRows == 2
\* A DataFrame has at most MaxCols columns.
MaxCols == 2
\* beautify_dataframe is applied at most MaxPasses times to one DataFrame.
MaxPasses == 2
\* At most MaxProcs command-line operations are started in one behaviour.
MaxProcs == 2
\* An interactive session reads at most MaxCommands commands.
MaxCommands == 2

-----------------------------------------------------------------------------
(* Python str operations.                                                  *)

Upper == <<"A","B","C","D","E","F","G","H","I","J","K","L","M",
           "N","O","P","Q","R","S","T","U","V","W","X","Y","Z">>
Lower == <<"a","b","c","d","e","f","g","h","i","j","k","l","m",
           "n","o","p","q","r","s","t","u","v","w","x","y","z">>

\* str.strip() without arguments removes whitespace.
Whitespace == {" ", "\t", "\n", "\r"}

UpperSet == {Upper[i] : i \in 1..Len(Upper)}
LowerOf == [c \in UpperSet |-> Lower[CHOOSE i \in 1..Len(Upper) : Upper[i] = c]]

lower_char(c) == IF c \in UpperSet THEN LowerOf[c] ELSE c

\* str.lower()
lower(s) == [i \in 1..Len(s) |-> lower_char(s[i])]

RECURSIVE rstrip(_, _)
\* str.rstrip(chars)
rstrip(s, chars) ==
    IF s /= <<>> /\ s[Len(s)] \in chars
    THEN rstrip(SubSeq(s, 1, Len(s) - 1), chars)
    ELSE s

RECURSIVE lstrip(_, _)
\* str.lstrip(chars)
lstrip(s, chars) ==
    IF s /= <<>> /\ s[1] \in chars THEN lstrip(Tail(s), chars) ELSE s

\* str.strip()
strip(s) == rstrip(lstrip(s, Whitespace), Whitespace)

\* `p in s` for two strings
contains(s, p) ==
    \E i \in 1..(Len(s) - Len(p) + 1) : SubSeq(s, i, i + Len(p) - 1) = p

\* s.startswith(p)
startswith(s, p) == Len(s) >= Len(p) /\ SubSeq(s, 1, Len(p)) = p

\* s.split(sep) for a one-character separator: the text between separators
split(s, sep) ==
    LET seps == {i \in 1..Len(s) : s[i] = sep}
        starts == {1} \cup {i + 1 : i \in seps}
        nth(k) == CHOOSE a \in starts : Cardinality({b \in starts : b < a}) = k - 1
        stop(a) == IF \E i \in seps : i >= a
                   THEN (CHOOSE i \in seps : i >= a /\ \A j \in seps : j >= a => i <= j) - 1
                   ELSE Len(s)
    IN  [k \in 1..Cardinality(starts) |-> SubSeq(s, nth(k), stop(nth(k)))]

RECURSIVE join(_, _)
\* sep.join(parts)
join(sep, parts) ==
    IF parts = <<>> THEN <<>>
    ELSE IF Len(parts) = 1 THEN parts[1]
    ELSE parts[1] \o sep \o join(sep, Tail(parts))

Digits == <<"0","1","2","3","4","5","6","7","8","9">>

RECURSIVE str_int(_)
\* str(n) / f"{n}" for a natural number
str_int(n) ==
    IF n < 10 THEN <<Digits[n + 1]>>
    ELSE str_int(n \div 10) \o <<Digits[(n % 10) + 1]>>

-----------------------------------------------------------------------------
(* Values of cells, CRS arguments and dictionary entries.  Every value is  *)
(* a record [t, n, s]: t its Python type, n its number, s its text.        *)

Val(t, n, s) == [t |-> t, n |-> n, s |-> s]
NoneV == Val("none", 0, <<>>)
IntV(n) == Val("int", n, <<>>)
StrV(s) == Val("str", 0, s)
\* a float, counted in halves: FloatV(3) is 1.5 and FloatV(4) is 2.0
FloatV(h) == Val("float", h, <<>>)
NaNV == Val("nan", 0, <<>>)

\* dict operations on a set of [k, v] entries
dict_has(d, k) == \E e \in d : e.k = k
dict_get(d, k) == (CHOOSE e \in d : e.k = k).v
dict_put(d, k, v) == {e \in d : e.k /= k} \cup {[k |-> k, v |-> v]}

\* the crs argument of an export and the CRS map of a planner call:
\* None, an int, a str or a dict {column: crs}
CrsNone == [t |-> "none", n |-> 0, s |-> <<>>, d |-> {}]
CrsInt(n) == [t |-> "int", n |-> n, s |-> <<>>, d |-> {}]
CrsStr(s) == [t |-> "str", n |-> 0, s |-> s, d |-> {}]
CrsDict(d) == [t |-> "dict", n |-> 0, s |-> <<>>, d |-> d]

-----------------------------------------------------------------------------
(* pandas DataFrame: an index and a sequence of columns, each a name, a    *)
(* dtype and one value per row.  Column names need not be distinct.        *)

RangeIndex(n) == [range |-> TRUE, vals |-> [i \in 1..n |-> i - 1]]
Column(name, dtype, vals) == [name |-> name, dtype |-> dtype, vals |-> vals]
DataFrame(index, cols) == [index |-> index, cols |-> cols]
NoFrame == DataFrame(RangeIndex(0), <<>>)

\* dataframe.shape[0], dataframe.shape[1], dataframe.columns
nrows(df) == Len(df.index.vals)
ncols(df) == Len(df.cols)
columns(df) == [j \in 1..Len(df.cols) |-> df.cols[j].name]

\* the dtype pandas infers for a column built from Python objects
infer_dtype(vals) ==
    IF vals = <<>> THEN "object"
    ELSE IF \A i \in 1..Len(vals) : vals[i].t = "int" THEN "int64"
    ELSE IF \A i \in 1..Len(vals) : vals[i].t = "bool" THEN "bool"
    ELSE IF \A i \in 1..Len(vals) : vals[i].t \in {"float", "nan"} THEN "float64"
    ELSE IF \A i \in 1..Len(vals) : vals[i].t = "datetime" THEN "datetime64[ns]"
    ELSE "object"

-----------------------------------------------------------------------------
(* The source database, as seen through a psycopg2 cursor.                 *)

\* pg_type names the lookup asks for; a column's type_code names its type
geometry_types == {"geometry", "geography"}

Desc(name, type_code, srid) ==
    [name |-> name, type_code |-> type_code, srid |-> srid, first_null |-> FALSE]
\* a column that holds NULL in its first row
NullFirst(desc) == [desc EXCEPT !.first_null = TRUE]

c_id == <<"i","d">>
c_name == <<"n","a","m","e">>
c_geom == <<"g","e","o","m">>
c_area == <<"a","r","e","a">>
c_geometry == <<"g","e","o","m","e","t","r","y">>

\* the column lists a table or a query result of the source can have
ResultShapes ==
    { <<Desc(c_id, "int4", 0), Desc(c_name, "text", 0)>>,
      <<Desc(c_id, "int4", 0), Desc(c_geom, "geometry", 4326)>>,
      <<Desc(c_geometry, "geometry", 3857), Desc(c_area, "geography", 4326)>>,
      <<Desc(c_id, "int4", 0), NullFirst(Desc(c_geometry, "geometry", 4326))>> }

\* the column list of a join of two tables that both have a column "geom":
\* a query result, unlike a table, can carry one name twice
JoinShape == <<Desc(c_geom, "geometry", 4326), Desc(c_geom, "geometry", 3857)>>
QueryShapes == ResultShapes \cup {JoinShape}

RowCounts == {0, MaxRows}

\* the value the source holds in row r of a column
source_value(desc, r) ==
    IF desc.first_null /\ r = 1 THEN NoneV
    ELSE IF desc.type_code \in geometry_types THEN Val("wkb", desc.srid, str_int(r))
    ELSE IF desc.type_code = "int4" THEN IntV(r)
    ELSE StrV(<<"r">> \o str_int(r))

\* ST_SRID(v)
ST_SRID(v) == IF v.t = "wkb" THEN IntV(v.n) ELSE NoneV
\* ST_AsGeoJSON(v)::jsonb
ST_AsGeoJSON(v) == IF v.t = "wkb" THEN Val("geojson", 0, v.s) ELSE NoneV
\* ST_AsGeoJSON(ST_Centroid(v))::jsonb
ST_AsGeoJSON_Centroid(v) == IF v.t = "wkb" THEN Val("geojson_point", 0, v.s) ELSE NoneV

\* the errors the source answers a statement with
QueryErrors == {"UndefinedTable", "UndefinedColumn", "UndefinedFunction", "SyntaxError"}

s_select == <<"s","e","l","e","c","t">>
s_returning == <<" ","r","e","t","u","r","n","i","n","g">>
write_verbs ==
    { <<"d","e","l","e","t","e">>, <<"d","r","o","p">>, <<"t","r","u","n","c","a","t","e">>, <<"u","p","d","a","t","e">>,
      <<"i","n","s","e","r","t">>, <<"c","r","e","a","t","e">>, <<"a","l","t","e","r">> }

Letters == UpperSet \cup {Lower[i] : i \in 1..Len(Lower)}

RECURSIVE leading_word(_, _)
\* the run of letters s has from position i on
leading_word(s, i) ==
    IF i <= Len(s) /\ s[i] \in Letters THEN <<s[i]>> \o leading_word(s, i + 1) ELSE <<>>

\* the command word of one SQL statement, in lower case
first_word(stmt) == lower(leading_word(lstrip(stmt, Whitespace), 1))

\* the statements of a text sent in one execute() call
statements(text) ==
    LET parts == split(text, ";")
    IN  SelectSeq(parts, LAMBDA p : \E i \in 1..Len(p) : p[i] \notin Whitespace)

\* the verbs of the state-changing statements in a text
writes(text) ==
    LET stmts == statements(text)
    IN  {first_word(stmts[i]) : i \in 1..Len(stmts)} \cap write_verbs

\* whether the cursor holds rows after executing the text: the last statement
\* is a select, or a write with a returning clause
returns_rows(text) ==
    LET stmts == statements(text)
    IN  /\ stmts /= <<>>
        /\ \/ first_word(stmts[Len(stmts)]) = s_select
           \/ contains(lower(stmts[Len(stmts)]), s_returning)

RECURSIVE union_writes(_)
union_writes(stmts) ==
    IF stmts = <<>> THEN {} ELSE writes(stmts[1]) \cup union_writes(Tail(stmts))

\* `with conn`: the transaction commits when the block ends normally and
\* rolls back when an exception leaves it
with_conn(before, stmts, status) ==
    IF status = "returned" THEN before \cup union_writes(stmts) ELSE before

\* where a call's statements can fail: nowhere (at = 0), or at statement `at`
Failure(at, kind) == [at |-> at, kind |-> kind]
NoFailure == Failure(0, "none")

\* what the cursor's statements come to: the statements sent, and the status
\* the call ends with.  A statement the source rejects raises its error; a
\* statement that leaves no rows raises when its rows are fetched.
run(plan, fail) ==
    LET dry == {k \in 1..Len(plan) : ~returns_rows(plan[k])}
        k_dry == IF dry = {} THEN 0 ELSE CHOOSE k \in dry : \A j \in dry : k <= j
    IN  IF fail.at > 0 /\ (k_dry = 0 \/ fail.at <= k_dry)
        THEN [sent |-> SubSeq(plan, 1, fail.at), status |-> fail.kind]
        ELSE IF k_dry > 0
        THEN [sent |-> SubSeq(plan, 1, k_dry), status |-> "ProgrammingError"]
        ELSE [sent |-> plan, status |-> "returned"]

Failures(plan) ==
    {NoFailure}
        \cup {Failure(1, "OperationalError")}
        \cup {Failure(2, e) : e \in QueryErrors}
        \cup {Failure(k, "InternalError") : k \in 3..Len(plan)}

\* the source during one call: the columns and the number of rows it answers
\* with, and where it fails
Source(desc, n, fail) == [desc |-> desc, n |-> n, fail |-> fail]
NoSource == Source(<<>>, 0, NoFailure)

Returned(df, crs) == [status |-> "returned", frame |-> df, crs |-> crs]
\* the error handed on as the refusal of the query
raised_as_unsafe(kind) ==
    [status |-> "UnsafeExpressionError", frame |-> NoFrame, crs |-> CrsNone]
Raised(kind) == [status |-> kind, frame |-> NoFrame, crs |-> CrsNone]

\* the rows the source holds for a column list
source_column(desc, n) == [r \in 1..n |-> source_value(desc, r)]

\* pd.DataFrame(cur.fetchall(), columns=[desc.name for desc in cur.description])
fetched_frame(desc, n) ==
    DataFrame(RangeIndex(n),
              [j \in 1..Len(desc) |->
                  Column(desc[j].name,
                         infer_dtype(source_column(desc[j], n)),
                         source_column(desc[j], n))])

\* dataframe[name] as a list, and dataframe[name] = values
column_values(df, name) ==
    df.cols[CHOOSE j \in 1..Len(df.cols) : df.cols[j].name = name].vals
set_column(df, name, vals) ==
    [df EXCEPT !.cols = [j \in 1..Len(df.cols) |->
        IF df.cols[j].name = name
        THEN Column(name, infer_dtype(vals), vals)
        ELSE df.cols[j]]]

-----------------------------------------------------------------------------
(* pg_save/querying/query.py                                               *)

stop_phrases ==
    { <<"u","p","d","a","t","e"," ">>,
      <<"d","r","o","p"," ">>,
      <<"i","n","s","e","r","t"," ">>,
      <<"c","r","e","a","t","e"," ">>,
      <<";">>,
      <<"a","l","t","e","r"," ">>,
      <<"d","e","a","l","l","o","c","a","t","e"," ">>,
      <<"c","o","p","y"," ">>,
      <<"m","o","v","e"," ">>,
      <<"i","m","p","o","r","t"," ">>,
      <<"r","e","a","s","s","i","g","n"," ">>,
      <<"g","r","a","n","t"," ">> }

SQL_TYPE_LOOKUP == <<"S","E","L","E","C","T"," ","o","i","d"," ","F","R","O","M"," ","p","g","_","t","y","p","e"," ","W","H","E","R","E"," ","t","y","p","n","a","m","e"," ","I","N"," ","%","s">>
SQL_SRID_VALUE == <<"S","E","L","E","C","T"," ","S","T","_","S","R","I","D","(","g","e","o","m",":",":","g","e","o","m","e","t","r","y",")"," ","F","R","O","M"," ","(","V","A","L","U","E","S"," ","(","%","s",")",")"," ","t","m","p","(","g","e","o","m",")">>
SQL_RECAST_HEAD == <<"S","E","L","E","C","T"," ","S","T","_","A","s","G","e","o","J","S","O","N","(","g","e","o","m",":",":","g","e","o","m","e","t","r","y",")",":",":","j","s","o","n","b"," ","F","R","O","M"," ","(","V","A","L","U","E","S"," ">>
SQL_RECAST_TAIL == <<")"," ","t","m","p","(","g","e","o","m",")">>

\* the batched re-cast of n values: one statement, n placeholders
recast_sql(n) ==
    SQL_RECAST_HEAD \o join(<<","," ">>, [i \in 1..n |-> <<"(","%","s",")">>]) \o SQL_RECAST_TAIL

\* query.strip().rstrip(";")
stripped(query) == rstrip(strip(query), {";"})

\* a case-sensitive test: query.lower() forgotten
found_stop_phrases_as_typed(query) == {p \in stop_phrases : contains(query, p)}

\* the stop words looked for without the space that ends them
found_stop_words(query) ==
    {p \in stop_phrases : contains(lower(query), rstrip(p, {" "}))}
\* the stop phrases found in query.lower()
found_stop_phrases(query) == {p \in stop_phrases : contains(lower(query), p)}

\* the geometry columns post-processed whatever execute_as_is says
casts_despite_as_is(execute_as_is, n) == n > 0
\* whether select() post-processes the geometry columns of a result
casts_geometry(execute_as_is, n) == ~execute_as_is /\ n > 0

\* dataframe.iloc[0][desc.name] is one value when one column carries the name
\* and a Series when several do, which psycopg2 cannot adapt: execute() then
\* raises ProgrammingError before anything is sent
adapts(desc, j) == Cardinality({i \in 1..Len(desc) : desc[i].name = desc[j].name}) = 1

\* the first geometry column whose first-row value cannot be adapted, or 0
unadapted(desc) ==
    LET bad == {j \in 1..Len(desc) : desc[j].type_code \in geometry_types /\ ~adapts(desc, j)}
    IN  IF bad = {} THEN 0 ELSE CHOOSE j \in bad : \A i \in bad : j <= i

\* the columns the loop over cur.description gets through
processed(desc) ==
    IF unadapted(desc) = 0 THEN desc ELSE SubSeq(desc, 1, unadapted(desc) - 1)

RECURSIVE recast_each_row(_, _)
\* one re-cast statement per row and geometry column
recast_each_row(desc, n) ==
    IF desc = <<>> THEN <<>>
    ELSE (IF desc[1].type_code \in geometry_types
          THEN <<SQL_SRID_VALUE>> \o [r \in 1..n |-> recast_sql(1)]
          ELSE <<>>) \o recast_each_row(Tail(desc), n)

RECURSIVE select_geometry_sql(_, _)
\* the statements of the loop over cur.description
select_geometry_sql(desc, n) ==
    IF desc = <<>> THEN <<>>
    ELSE (IF desc[1].type_code \in geometry_types
          THEN <<SQL_SRID_VALUE, recast_sql(n)>>
          ELSE <<>>) \o select_geometry_sql(Tail(desc), n)

RECURSIVE select_geometry(_, _, _, _)
\* the loop over cur.description: the frame and the crs_dict it leaves
select_geometry(desc, j, df, crs_dict) ==
    IF j > Len(desc) THEN [frame |-> df, crs |-> crs_dict]
    ELSE IF desc[j].type_code \in geometry_types
    THEN LET name == desc[j].name
             old == column_values(df, name)
         IN  select_geometry(
                 desc, j + 1,
                 set_column(df, name, [r \in 1..Len(old) |-> ST_AsGeoJSON(old[r])]),
                 CrsDict(dict_put(crs_dict.d, name, ST_SRID(old[1]))))
    ELSE select_geometry(desc, j + 1, df, crs_dict)

\* every statement select() sends when none fails
select_plan(query, execute_as_is, desc, n) ==
    <<SQL_TYPE_LOOKUP, query>>
        \o (IF returns_rows(query) /\ casts_geometry(execute_as_is, n)
            THEN select_geometry_sql(processed(desc), n) ELSE <<>>)

\* what select() returns when no statement fails
select_result(execute_as_is, desc, n) ==
    IF casts_geometry(execute_as_is, n)
    THEN IF unadapted(desc) /= 0
         THEN Raised("ProgrammingError")
         ELSE LET done == select_geometry(desc, 1, fetched_frame(desc, n), CrsNone)
              IN  Returned(done.frame, done.crs)
    ELSE Returned(fetched_frame(desc, n), CrsNone)

\* select(conn, query, execute_as_is)
select(query, execute_as_is) ==
    LET q == stripped(query)
    IN  /\ call.op = "none"
        /\ call' = [op |-> "select", text |-> query, flag |-> execute_as_is]
        /\ IF found_stop_phrases(q) /= {}
           THEN /\ sent' = <<>>
                /\ result' = Raised("UnsafeExpressionError")
                /\ committed' = committed
                /\ source' = NoSource
           ELSE \E desc \in QueryShapes, n \in RowCounts :
                \E plan \in {select_plan(q, execute_as_is, desc, n)} :
                \E fail \in Failures(plan) :
                \E ran \in {run(plan, fail)} :
                    LET res == IF ran.status = "returned"
                               THEN select_result(execute_as_is, desc, n)
                               ELSE Raised(ran.status)
                    IN  /\ sent' = ran.sent
                        /\ result' = res
                        /\ committed' = with_conn(committed, ran.sent, res.status)
                        /\ source' = Source(desc, n, fail)
        /\ UNCHANGED <<frame_vars, export_vars, procs, session, renaming>>

-----------------------------------------------------------------------------
(* pg_save/querying/table.py                                               *)

\* f"SELECT * from {table} LIMIT 0"
probe_sql(table) == <<"S","E","L","E","C","T"," ","*"," ","f","r","o","m"," ">> \o table \o <<" ","L","I","M","I","T"," ","0">>

\* f"SELECT ST_SRID({desc.name}) FROM {table} LIMIT 1"
srid_sql(name, table) ==
    <<"S","E","L","E","C","T"," ","S","T","_","S","R","I","D","(">> \o name \o <<")"," ","F","R","O","M"," ">> \o table \o <<" ","L","I","M","I","T"," ","1">>

CENTROID_HEAD == <<"S","T","_","A","s","G","e","o","J","S","O","N","(","S","T","_","C","e","n","t","r","o","i","d","(","\"">>
CENTROID_MID == <<"\"",")",")",":",":","j","s","o","n","b"," ","\"">>
GEOJSON_HEAD == <<"S","T","_","A","s","G","e","o","J","S","O","N","(","\"">>
GEOJSON_MID == <<"\"",")",":",":","j","s","o","n","b"," ","\"">>

\* the full geometry projected whatever use_centroids says
column_to_select_full(desc, use_centroids) ==
    IF desc.type_code \notin geometry_types THEN desc.name
    ELSE GEOJSON_HEAD \o desc.name \o GEOJSON_MID \o desc.name \o <<"\"">>
\* the entry of columns_to_select for one column of cur.description
column_to_select(desc, use_centroids) ==
    IF desc.type_code \notin geometry_types THEN desc.name
    ELSE IF use_centroids
    THEN CENTROID_HEAD \o desc.name \o CENTROID_MID \o desc.name \o <<"\"">>
    ELSE GEOJSON_HEAD \o desc.name \o GEOJSON_MID \o desc.name \o <<"\"">>

columns_to_select(desc, use_centroids) ==
    [j \in 1..Len(desc) |-> column_to_select(desc[j], use_centroids)]

\* f'SELECT {", ".join(columns_to_select)} FROM {table}'
table_sql(desc, table, use_centroids) ==
    <<"S","E","L","E","C","T"," ">> \o join(<<","," ">>, columns_to_select(desc, use_centroids))
        \o <<" ","F","R","O","M"," ">> \o table

RECURSIVE table_srid_sql(_, _)
table_srid_sql(desc, table) ==
    IF desc = <<>> THEN <<>>
    ELSE (IF desc[1].type_code \in geometry_types
          THEN <<srid_sql(desc[1].name, table)>> ELSE <<>>)
         \o table_srid_sql(Tail(desc), table)

\* every statement get_table() sends when none fails
table_plan(table, use_centroids, desc) ==
    <<SQL_TYPE_LOOKUP, probe_sql(table)>>
        \o table_srid_sql(desc, table)
        \o <<table_sql(desc, table, use_centroids)>>

RECURSIVE table_crs_unguarded(_, _, _, _)
\* an entry for every geometry column, whatever fetchone() gave
table_crs_unguarded(desc, j, n, crs_dict) ==
    IF j > Len(desc) THEN crs_dict
    ELSE IF desc[j].type_code \in geometry_types
    THEN table_crs_unguarded(desc, j + 1, n,
                   CrsDict(dict_put(crs_dict.d, desc[j].name,
                                    ST_SRID(source_value(desc[j], 1)))))
    ELSE table_crs_unguarded(desc, j + 1, n, crs_dict)
RECURSIVE table_crs(_, _, _, _)
\* the crs_dict the loop over cur.description leaves: fetchone() of the SRID
\* probe is None for a table without rows
table_crs(desc, j, n, crs_dict) ==
    IF j > Len(desc) THEN crs_dict
    ELSE IF desc[j].type_code \in geometry_types /\ n > 0
    THEN table_crs(desc, j + 1, n,
                   CrsDict(dict_put(crs_dict.d, desc[j].name,
                                    ST_SRID(source_value(desc[j], 1)))))
    ELSE table_crs(desc, j + 1, n, crs_dict)

\* the name between the double quotes of a projection
quoted_name(item) ==
    LET parts == split(item, "\"") IN IF Len(parts) >= 2 THEN parts[2] ELSE item

\* the values the source answers one projection of the final select with
projected(item, desc, n) ==
    LET name == quoted_name(item)
        d == desc[CHOOSE j \in 1..Len(desc) : desc[j].name = name]
        raw == source_column(d, n)
    IN  IF startswith(item, CENTROID_HEAD)
        THEN [r \in 1..n |-> ST_AsGeoJSON_Centroid(raw[r])]
        ELSE IF startswith(item, GEOJSON_HEAD)
        THEN [r \in 1..n |-> ST_AsGeoJSON(raw[r])]
        ELSE raw

\* pd.DataFrame(cur.fetchall(), columns=...) of the final select
table_frame(desc, n, use_centroids) ==
    DataFrame(RangeIndex(n),
              [j \in 1..Len(desc) |->
                  LET vals == projected(column_to_select(desc[j], use_centroids), desc, n)
                  IN  Column(desc[j].name, infer_dtype(vals), vals)])

\* get_table(conn, table, use_centroids)
get_table(table, use_centroids) ==
    /\ call.op = "none"
    /\ call' = [op |-> "get_table", text |-> table, flag |-> use_centroids]
    /\ \E desc \in ResultShapes, n \in RowCounts :
       \E plan \in {table_plan(table, use_centroids, desc)} :
       \E fail \in Failures(plan) :
       \E ran \in {run(plan, fail)} :
               /\ sent' = ran.sent
               /\ result' = IF ran.status = "returned"
                            THEN Returned(table_frame(desc, n, use_centroids),
                                          table_crs(desc, 1, n, CrsNone))
                            ELSE Raised(ran.status)
               /\ committed' = with_conn(committed, ran.sent, ran.status)
               /\ source' = Source(desc, n, fail)
    /\ UNCHANGED <<frame_vars, export_vars, procs, session, renaming>>

-----------------------------------------------------------------------------
(* The planner's callers: any query text, any table reference.             *)

QueryFragments ==
    { <<"S","E","L","E","C","T"," ","1">>,
      <<";"," ","D","R","O","P"," ","T","A","B","L","E"," ","u","s","e","r","s">>,
      <<"s","e","l","e","c","t"," ","a"," ","f","r","o","m"," ","t">>,
      <<"d","e","l","e","t","e"," ","f","r","o","m"," ","t">>,
      <<" ","r","e","t","u","r","n","i","n","g"," ","i","d">>,
      <<"D","r","o","p"," ">>,
      <<";">>,
      <<" ">>,
      <<" ","w","h","e","r","e"," ","d","r","o","p","_","i","d"," ","="," ","1">>,
      <<" ","w","h","e","r","e"," ","l","a","s","t","_","u","p","d","a","t","e"," ",">"," ","0">> }

RECURSIVE Texts(_)
\* the concatenations of at most k fragments
Texts(k) ==
    IF k = 0 THEN {<<>>}
    ELSE Texts(k - 1) \cup {t \o f : t \in Texts(k - 1), f \in QueryFragments}

Queries == Texts(MaxFragments)

TableRefs ==
    { <<"t">>,
      <<"p","u","b","l","i","c",".","t">>,
      <<"t",";"," ","d","e","l","e","t","e"," ","f","r","o","m"," ","t",";"," ","s","e","l","e","c","t"," ","*"," ","f","r","o","m"," ","t">> }

Select == \E query \in Queries, execute_as_is \in BOOLEAN : select(query, execute_as_is)

GetTable == \E table \in TableRefs, use_centroids \in BOOLEAN : get_table(table, use_centroids)

NoCall == [op |-> "none", text |-> <<>>, flag |-> FALSE]
NoResult == [status |-> "none", frame |-> NoFrame, crs |-> CrsNone]

\* the caller is done with a call's result; what was committed stays committed
Discard ==
    /\ call.op /= "none"
    /\ call' = NoCall
    /\ sent' = <<>>
    /\ result' = NoResult
    /\ source' = NoSource
    /\ UNCHANGED <<committed, frame_vars, export_vars, procs, session, renaming>>

-----------------------------------------------------------------------------
(* pg_save/utils/pd.py                                                     *)

s_index == <<"i","n","d","e","x">>
s_level_0 == <<"l","e","v","e","l","_","0">>

\* isinstance(index, pd.RangeIndex) and all(index == pd.RangeIndex(shape[0]))
is_plain_index(df) == df.index.range /\ df.index.vals = RangeIndex(nrows(df)).vals

\* DataFrame.reset_index() of an unnamed index: the old index becomes the
\* leading column "index", or "level_0" when a column "index" exists, and it
\* raises ValueError when that name is taken too
reset_index_name(df) ==
    IF \A j \in 1..ncols(df) : df.cols[j].name /= s_index THEN s_index ELSE s_level_0

reset_index_raises(df) == \E j \in 1..ncols(df) : df.cols[j].name = reset_index_name(df)

reset_index(df) ==
    DataFrame(RangeIndex(nrows(df)),
              <<Column(reset_index_name(df), "int64",
                       [r \in 1..nrows(df) |-> IntV(df.index.vals[r])])>> \o df.cols)

\* Counter(...)[k]
count_of(d, k) == IF dict_has(d, k) THEN dict_get(d, k) ELSE 0

\* counters that start at 0, so that the first suffix is _1
counter_from_zero(d, k) == IF dict_has(d, k) THEN dict_get(d, k) ELSE 0

\* defaultdict(lambda: -1)[k]
counter_of(d, k) == IF dict_has(d, k) THEN dict_get(d, k) ELSE -1

RECURSIVE Counter(_)
\* Counter(dataframe.columns)
Counter(names) ==
    IF names = <<>> THEN {}
    ELSE LET rest == Counter(Tail(names))
         IN  dict_put(rest, names[1], count_of(rest, names[1]) + 1)

\* an `if` where the source has `while`: the generated name is returned
\* without a look at its own count
rename_once(column_name, columns_name_counts, counters) ==
    IF count_of(columns_name_counts, column_name) > 1
    THEN LET k == counter_of(counters, column_name) + 1
             renamed == column_name \o <<"_">> \o str_int(k)
         IN  [name |-> renamed,
              counts |-> dict_put(columns_name_counts, renamed,
                                  count_of(columns_name_counts, renamed) + 1),
              counters |-> dict_put(counters, column_name, k)]
    ELSE [name |-> column_name, counts |-> columns_name_counts, counters |-> counters]
RECURSIVE rename_func(_, _, _)
\* rename_func(column_name) with the closure's columns_name_counts and counters:
\* the name it returns and the two dictionaries as it leaves them
rename_func(column_name, columns_name_counts, counters) ==
    IF count_of(columns_name_counts, column_name) > 1
    THEN LET k == counter_of(counters, column_name) + 1
             renamed == column_name \o <<"_">> \o str_int(k)
         IN  rename_func(renamed,
                         dict_put(columns_name_counts, renamed,
                                  count_of(columns_name_counts, renamed) + 1),
                         dict_put(counters, column_name, k))
    ELSE [name |-> column_name, counts |-> columns_name_counts, counters |-> counters]

RECURSIVE rename_from(_, _, _, _)
\* dataframe.rename(rename_func, axis=1): rename_func on each label in order
rename_from(names, j, columns_name_counts, counters) ==
    IF j > Len(names) THEN <<>>
    ELSE LET one == rename_func(names[j], columns_name_counts, counters)
         IN  <<one.name>> \o rename_from(names, j + 1, one.counts, one.counters)

rename(names) == rename_from(names, 1, Counter(names), {})

\* int(x) if isinstance(x, float) and x.is_integer() else x
int_if_whole(x) == IF x.t = "float" /\ x.n % 2 = 0 THEN IntV(x.n \div 2) ELSE x

\* .replace({np.nan: None}) on one value
nan_to_none(x) == IF x.t = "nan" THEN NoneV ELSE x

\* pd.Series(map(..., column), dtype=object), then replace({np.nan: None})
coerced(col) ==
    Column(col.name, "object",
           [r \in 1..Len(col.vals) |-> nan_to_none(int_if_whole(col.vals[r]))])

\* reset_index() called whatever the index
resets_index_always(df) == TRUE

\* whether the index is folded back into a column
resets_index(df) == ~is_plain_index(df)

\* The functions that take a DataFrame rebind their parameter before they
\* assign into it, or they would assign into the caller's object.
\* no function starts with a copy
copies_never(function) == FALSE
\* dataframe = dataframe.copy() as the first statement
copies_first(function) ==
    function \in {"beautify_dataframe", "to_csv", "to_excel", "to_json"}

\* a statement that always runs before the assignments and binds the
\* parameter to a new object: dataframe = dataframe.rename(rename_func, axis=1)
\* in beautify_dataframe, dataframe = dataframe.drop(geometry_column, axis=1)
\* in to_geojson
rebinds(function) == function \in {"beautify_dataframe", "to_geojson"}

\* the caller's DataFrame after the call: untouched when the function works
\* on an object of its own, else with the columns the function assigned
\* (dataframe.iloc[:, i] = pd.Series(map(...), dtype=object))
left_to_caller(function, df) ==
    IF copies_first(function) \/ rebinds(function) THEN df
    ELSE [df EXCEPT !.cols =
            [j \in 1..Len(df.cols) |->
                Column(df.cols[j].name, "object",
                       [r \in 1..Len(df.cols[j].vals) |->
                           IF df.cols[j].vals[r].t = "float" /\ df.cols[j].vals[r].n % 2 = 0
                           THEN IntV(df.cols[j].vals[r].n \div 2)
                           ELSE df.cols[j].vals[r]])]]

\* beautify_dataframe(dataframe): [status, frame]
beautify_dataframe(df) ==
    IF resets_index(df) /\ reset_index_raises(df)
    THEN [status |-> "ValueError", frame |-> df]
    ELSE LET indexed == IF resets_index(df) THEN reset_index(df) ELSE df
             names == rename(columns(indexed))
         IN  [status |-> "returned",
              frame |-> DataFrame(indexed.index,
                            [j \in 1..ncols(indexed) |->
                                coerced([indexed.cols[j] EXCEPT !.name = names[j]])])]

-----------------------------------------------------------------------------
(* The DataFrames handed to normalisation and export.                      *)

c_id_0 == <<"i","d","_","0">>
c_ts == <<"t","s">>
c_blob == <<"b","l","o","b">>
c_flag == <<"f","l","a","g">>

\* a column of the pool: its name, the dtype pandas gives it, and its value in
\* row r
whole_or_null(r) == IF r % 2 = 0 THEN NaNV ELSE FloatV(2 * (r + 1))
fractional(r) == IF r = 1 THEN FloatV(3) ELSE IF r % 2 = 0 THEN FloatV(4) ELSE NaNV
text_or_none(r) == IF r % 2 = 0 THEN NoneV ELSE StrV(<<"a">> \o str_int(r))

Pool(n) ==
    << Column(c_id, "int64", [r \in 1..n |-> IntV(r)]),
       Column(c_id, "float64", [r \in 1..n |-> whole_or_null(r)]),
       Column(c_id_0, "float64", [r \in 1..n |-> fractional(r)]),
       Column(s_index, "object", [r \in 1..n |-> text_or_none(r)]),
       Column(c_geometry, "object", [r \in 1..n |-> Val("geojson", 0, str_int(r))]),
       Column(c_ts, "datetime64[ns]", [r \in 1..n |-> Val("datetime", r, <<>>)]),
       Column(c_blob, "object", [r \in 1..n |-> Val("bytes", r, <<>>)]),
       Column(c_flag, "bool", [r \in 1..n |-> Val("bool", r % 2, <<>>)]) >>

PoolColumn(k, n) == Pool(n)[k]

RECURSIVE Picks(_)
\* the selections of at most k pool columns, repeats allowed, in pool order
Picks(k) ==
    IF k = 0 THEN {<<>>}
    ELSE Picks(k - 1) \cup
         { pc[1] \o <<pc[2]>> :
             pc \in { x \in Picks(k - 1) \X (1..Len(Pool(0))) :
                        x[1] = <<>> \/ x[1][Len(x[1])] <= x[2] } }

\* the indexes a DataFrame of n rows can carry: the plain RangeIndex, an
\* integer index with the same labels, an integer index with other labels
Indexes(n) ==
    { RangeIndex(n),
      [range |-> FALSE, vals |-> [i \in 1..n |-> i - 1]],
      [range |-> FALSE, vals |-> [i \in 1..n |-> i + 9]] }

Frames ==
    UNION { { DataFrame(ix, [j \in 1..Len(p) |-> PoolColumn(p[j], n)]) :
                p \in Picks(MaxCols), ix \in Indexes(n) } : n \in RowCounts }

\* the caller holds a DataFrame
Load ==
    /\ frame = NoFrame /\ passes = 0
    /\ xcall.op = "none"
    /\ \E df \in Frames : frame' = df
    /\ UNCHANGED <<prev, given, passes, planner_vars, export_vars, procs, session, renaming>>

\* dataframe = beautify_dataframe(dataframe), at most `limit` times
Normalize(limit) ==
    /\ passes < limit
    /\ xcall.op = "none"
    /\ beautify_dataframe(frame).status = "returned"
    /\ given' = frame
    /\ prev' = left_to_caller("beautify_dataframe", frame)
    /\ frame' = beautify_dataframe(frame).frame
    /\ passes' = passes + 1
    /\ UNCHANGED <<planner_vars, export_vars, procs, session, renaming>>

NormalizeAgain == Normalize(MaxPasses)

-----------------------------------------------------------------------------
(* pg_save/export: what the exporters write.                               *)
(*                                                                         *)
(* A written document is kept as the tokens it consists of: for csv and    *)
(* xlsx the header and one cell per column and row, for json one           *)
(* key/value pair per column and row, for geojson the crs name, the        *)
(* properties and the geometry of each feature.                            *)

\* repr() of a float counted in halves
float_repr(h) == str_int(h \div 2) \o (IF h % 2 = 0 THEN <<".","0">> ELSE <<".","5">>)

\* str() of a value: what DataFrame.to_csv writes into a cell and what
\* NpEncoder.default falls back to
str_of(v) ==
    CASE v.t = "none" -> <<"N","o","n","e">>
      [] v.t = "nan" -> <<"n","a","n">>
      [] v.t = "int" -> str_int(v.n)
      [] v.t = "float" -> float_repr(v.n)
      [] v.t = "str" -> v.s
      [] v.t = "bool" -> IF v.n = 1 THEN <<"T","r","u","e">> ELSE <<"F","a","l","s","e">>
      [] v.t = "datetime" -> <<"1","9","7","0","-","0","1","-","0","1"," ","0","0",":","0","0",":","0">> \o str_int(v.n)
      [] v.t = "bytes" -> <<"b","'","\\","x","0">> \o str_int(v.n) \o <<"'">>
      [] OTHER -> <<"{","'","t","y","p","e","'",":"," ","'","P","o","i","n","t","'",","," ","'","c","o","o","r","d","i","n","a","t","e","s","'",":"," ","[">> \o v.s \o <<"]","}">>

\* a cell of DataFrame.to_csv(): missing values are written as the empty text
csv_token(v) == IF v.t \in {"none", "nan"} THEN <<>> ELSE str_of(v)

quoted(s) == <<"\"">> \o s \o <<"\"">>

\* json.dump(..., cls=NpEncoder) of one value: the encoder writes None, bool,
\* int, float, str and dict itself and hands anything else to
\* NpEncoder.default, which ends in str(o)
json_token(v) ==
    CASE v.t = "none" -> <<"n","u","l","l">>
      [] v.t = "nan" -> <<"N","a","N">>
      [] v.t = "int" -> str_int(v.n)
      [] v.t = "float" -> float_repr(v.n)
      [] v.t = "str" -> quoted(v.s)
      [] v.t = "bool" -> IF v.n = 1 THEN <<"t","r","u","e">> ELSE <<"f","a","l","s","e">>
      [] v.t \in {"geojson", "geojson_point"} ->
            <<"{","\"","t","y","p","e","\"",":"," ","\"","P","o","i","n","t","\"",","," ","\"","c","o","o","r","d","i","n","a","t","e","s","\"",":"," ","[">> \o v.s \o <<"]","}">>
      [] OTHER -> quoted(str_of(v))

\* a log record of loguru: its level, its message and the values put into it
Report(level, msg, args) == [level |-> level, msg |-> msg, args |-> args]

\* the documents
NoCrsName == Val("absent", 0, <<>>)
Document(fmt, header, rows, crs_name, geometries, name) ==
    [written |-> TRUE, fmt |-> fmt, header |-> header, rows |-> rows,
     crs_name |-> crs_name, geometries |-> geometries, name |-> name]
Nothing ==
    [written |-> FALSE, fmt |-> "none", header |-> <<>>, rows |-> <<>>,
     crs_name |-> NoCrsName, geometries |-> <<>>, name |-> <<>>]

\* the outcome of one exporter
Wrote(doc, log) == [status |-> "returned", content |-> doc, log |-> log]
Aborted(status, log) == [status |-> status, content |-> Nothing, log |-> log]

\* every value left as it is
float_kept(x) == x
\* lambda x: int(x) if isinstance(x, float) and x.is_integer() else x
\* as the exporters repeat it
whole_as_int(x) == IF x.t = "float" /\ x.n % 2 = 0 THEN IntV(x.n \div 2) ELSE x

\* dataframe.iloc[:, i] = pd.Series(map(...), dtype=object) for every i, then
\* dataframe.replace({np.nan: None})
integer_coerced(cols) ==
    [j \in 1..Len(cols) |->
        Column(cols[j].name, "object",
               [r \in 1..Len(cols[j].vals) |-> nan_to_none(whole_as_int(cols[j].vals[r]))])]

\* dataframe.replace({np.nan: None}) alone
nan_replaced(cols) ==
    [j \in 1..Len(cols) |->
        [cols[j] EXCEPT !.vals = [r \in 1..Len(cols[j].vals) |-> nan_to_none(cols[j].vals[r])]]]

names_of(cols) == [j \in 1..Len(cols) |-> cols[j].name]
\* the first n rows as label/token pairs, in csv or in json tokens
rows_of(cols, n, as_json) ==
    [r \in 1..n |->
        [j \in 1..Len(cols) |->
            [k |-> cols[j].name,
             v |-> IF as_json THEN json_token(cols[j].vals[r])
                              ELSE csv_token(cols[j].vals[r])]]]

\* to_csv(dataframe, filename_or_buf)
to_csv(df, target) ==
    LET cols == integer_coerced(df.cols)
    IN  Wrote(Document("csv", names_of(cols), rows_of(cols, nrows(df), FALSE),
                       NoCrsName, <<>>, <<>>), {})

\* to_excel(dataframe, filename_or_buf)
to_excel(df, target) ==
    LET cols == integer_coerced(df.cols)
    IN  Wrote(Document("xlsx", names_of(cols), rows_of(cols, nrows(df), FALSE),
                       NoCrsName, <<>>, <<>>), {})


serializable_types == {"object", "int64", "float64", "bool"}

\* how many columns carry a label: dataframe[col] is a Series for one, a
\* DataFrame for several, and raises KeyError for none
labelled(cols, col) == Cardinality({j \in 1..Len(cols) : cols[j].name = col})

\* dataframe.drop(col, axis=1): every column with that label goes
drop(cols, col) == SelectSeq(cols, LAMBDA c : c.name /= col)

\* f"{col}_{next(rng)}"
numbered(col, k) == col \o <<"_">> \o str_int(k)

\* dataframe.rename(lambda name: name if name != col else f"{col}_{next(rng)}",
\* axis=1): the occurrences of col are numbered from 0 in column order
renumbered(cols, col) ==
    [j \in 1..Len(cols) |->
        IF cols[j].name = col
        THEN [cols[j] EXCEPT !.name =
                numbered(col, Cardinality({i \in 1..(j - 1) : cols[i].name = col}))]
        ELSE cols[j]]

dtype_of(cols, col) == (CHOOSE c \in {cols[j] : j \in 1..Len(cols)} : c.name = col).dtype

RECURSIVE check_renumbered(_, _, _, _, _)
\* for col_idx in range(next(rng)): the dtype test of each numbered column,
\* which raises ValueError when the numbered label is carried by several
\* columns (.dtypes is then a Series, and `not in` needs its truth value);
\* to_geojson drops the column that fails the test, to_json only logs
check_renumbered(st, col, col_idx, count, drops) ==
    IF col_idx >= count \/ st.status /= "ok" THEN st
    ELSE LET col_name == numbered(col, col_idx)
         IN  IF labelled(st.cols, col_name) > 1
             THEN [st EXCEPT !.status = "ValueError"]
             ELSE IF dtype_of(st.cols, col_name) \notin serializable_types
             THEN check_renumbered(
                      [st EXCEPT !.cols = IF drops THEN drop(st.cols, col_name) ELSE st.cols,
                                 !.log = st.log \cup
                                     {Report("warning", "Dropping non-serializable column",
                                             <<col_name>>)}],
                      col, col_idx + 1, count, drops)
             ELSE check_renumbered(st, col, col_idx + 1, count, drops)

RECURSIVE serializable_columns(_, _, _, _)
\* for col in set(dataframe.columns): ..., the labels taken in the order the
\* set yields them
serializable_columns(st, order, i, drops) ==
    IF i > Len(order) \/ st.status /= "ok" THEN st
    ELSE LET col == order[i]
             count == labelled(st.cols, col)
         IN  IF count = 0
             THEN [st EXCEPT !.status = "KeyError"]
             ELSE IF count > 1
             THEN serializable_columns(
                      check_renumbered(
                          [st EXCEPT !.cols = renumbered(st.cols, col),
                                     !.log = st.log \cup
                                         {Report("warning",
                                                 IF drops
                                                 THEN "Table contains multiple columns having with the same name, renaming"
                                                 ELSE "Table has more than one column with the same name, renaming",
                                                 <<col>>)}],
                          col, 0, count, drops),
                      order, i + 1, drops)
             ELSE IF dtype_of(st.cols, col) \notin serializable_types
             THEN serializable_columns(
                      [st EXCEPT !.cols = drop(st.cols, col),
                                 !.log = st.log \cup
                                     {Report("warning", "Dropping non-serializable column",
                                             <<col>>)}],
                      order, i + 1, drops)
             ELSE serializable_columns(st, order, i + 1, drops)

\* the labels of `order` that the columns carry
labels_in(order, cols) ==
    SelectSeq(order, LAMBDA col : labelled(cols, col) > 0)

\* to_json(dataframe, filename_or_buf), with the order in which
\* set(dataframe.columns) yields the labels
to_json(df, target, order) ==
    LET st == serializable_columns([status |-> "ok", cols |-> df.cols, log |-> {}],
                                   labels_in(order, df.cols), 1, FALSE)
    IN  IF st.status /= "ok" THEN Aborted(st.status, st.log)
        ELSE LET cols == integer_coerced(st.cols)
             IN  Wrote(Document("json", <<>>, rows_of(cols, nrows(df), TRUE),
                                NoCrsName, <<>>, <<>>), st.log)

\* the crs argument of an export as a value
crs_value(crs) ==
    CASE crs.t = "int" -> IntV(crs.n)
      [] crs.t = "str" -> StrV(crs.s)
      [] OTHER -> NoneV

URN == <<"u","r","n",":","o","g","c",":","d","e","f",":","c","r","s",":","E","P","S","G",":",":">>

\* the crs written as it was given, whatever its type
crs_as_given(crs) == crs
\* f"urn:ogc:def:crs:EPSG::{crs}" if isinstance(crs, int) else crs
crs_name(crs) == IF crs.t = "int" THEN StrV(URN \o str_int(crs.n)) ELSE crs

\* the test skipped
column_never_missing(df, geometry_column) == FALSE
\* `geometry_column not in dataframe.columns`
column_missing(df, geometry_column) == labelled(df.cols, geometry_column) = 0

\* zip(dataframe.iterrows(), geometry_series): the values of the geometry
\* column, or, when several columns carry the label, the labels that iterating
\* a DataFrame yields
geometry_series(df, geometry_column) ==
    LET at == {j \in 1..ncols(df) : df.cols[j].name = geometry_column}
    IN  IF Cardinality(at) = 1
        THEN (CHOOSE c \in {df.cols[j] : j \in at} : TRUE).vals
        ELSE [i \in 1..Cardinality(at) |-> StrV(geometry_column)]

Min(a, b) == IF a <= b THEN a ELSE b

\* to_geojson(dataframe, filename_or_buf, geometry_column, crs), with the
\* order in which set(dataframe.columns) yields the labels; crs is a value
to_geojson(df, target, geometry_column, crs, order) ==
    IF column_missing(df, geometry_column)
    THEN [status |-> "returned", content |-> Nothing,
          log |-> {Report("error", "Geometry column is not present, aborting",
                          <<geometry_column>>)}]
    ELSE LET geometry == geometry_series(df, geometry_column)
             rest == drop(df.cols, geometry_column)
             st == serializable_columns([status |-> "ok", cols |-> rest, log |-> {}],
                                        labels_in(order, rest), 1, TRUE)
         IN  IF st.status /= "ok" THEN Aborted(st.status, st.log)
             ELSE LET cols == IF nrows(df) > 0 THEN integer_coerced(st.cols)
                                               ELSE nan_replaced(st.cols)
                      features == Min(nrows(df), Len(geometry))
                  IN  Wrote(Document("geojson", <<>>,
                                     rows_of(cols, features, TRUE),
                                     crs_name(crs),
                                     [i \in 1..features |-> json_token(geometry[i])],
                                     target),
                            st.log)

-----------------------------------------------------------------------------
(* pg_save/export/united.py: to_file and to_buffer.                        *)

\* export.DEFAULT_CRS
DEFAULT_CRS == 4326

s_csv == <<"c","s","v">>
s_xlsx == <<"x","l","s","x">>
s_json == <<"j","s","o","n">>
s_geojson == <<"g","e","o","j","s","o","n">>
s_dot_csv == <<".","c","s","v">>
formats == {s_csv, s_xlsx, s_json, s_geojson}

\* the text after the last ".", in the letter case of the name
extension_as_typed(filename) ==
    LET parts == split(filename, ".") IN parts[Len(parts)]
\* filename.split(".")[-1].lower()
extension(filename) ==
    LET parts == split(filename, ".") IN lower(parts[Len(parts)])

\* the crs handed to to_geojson: DEFAULT_CRS for None, the entry of the
\* geometry column for a dict that has one and DEFAULT_CRS for a dict that has
\* none, the crs itself otherwise
chosen_crs(crs, geometry_column) ==
    IF crs.t = "none"
    THEN [crs |-> IntV(DEFAULT_CRS),
          log |-> {Report("warning", "No CRS is given, using default", <<>>)}]
    ELSE IF crs.t = "dict"
    THEN IF geometry_column.t = "str" /\ dict_has(crs.d, geometry_column.s)
         THEN [crs |-> dict_get(crs.d, geometry_column.s), log |-> {}]
         ELSE [crs |-> IntV(DEFAULT_CRS),
               log |-> {Report("warning",
                               "crs given as a dict, but geometry column is not in its keys. Using default",
                               <<geometry_column.s>>)}]
    ELSE [crs |-> crs_value(crs), log |-> {}]

\* the geojson branch of to_file and to_buffer
geojson_branch(df, target, crs, geometry_column, order) ==
    LET chosen == chosen_crs(crs, geometry_column)
        unset == geometry_column.t = "none"
        out == to_geojson(df, target, IF unset THEN c_geometry ELSE geometry_column.s,
                          chosen.crs, order)
    IN  [out EXCEPT !.log = out.log \cup chosen.log \cup
            (IF unset
             THEN {Report("error",
                          "Geometry column is not set, but is required. Falling back to \"geometry\"",
                          <<>>)}
             ELSE {})]

\* the if/elif chain on file_format: the writer invoked and its outcome
dispatch(df, target, file_format, crs, geometry_column, order) ==
    LET saving == {Report("info", "Saving file in format", <<file_format>>)}
        invoked(writer, out) ==
            [status |-> out.status, writers |-> writer, path |-> target,
             content |-> out.content, log |-> saving \cup out.log]
    IN  CASE file_format = s_csv -> invoked(<<"to_csv">>, to_csv(df, target))
          [] file_format = s_xlsx -> invoked(<<"to_excel">>, to_excel(df, target))
          [] file_format = s_geojson ->
                invoked(<<"to_geojson">>,
                        geojson_branch(df, target, crs, geometry_column, order))
          [] file_format = s_json -> invoked(<<"to_json">>, to_json(df, target, order))
          [] OTHER -> invoked(<<>>, Wrote(Nothing, {}))

also(out, log) == [out EXCEPT !.log = out.log \cup log]

\* to_file(dataframe, filename, crs, geometry_column)
to_file(df, filename, crs, geometry_column, order) ==
    LET bare == ~contains(filename, <<".">>)
        named == IF bare THEN filename \o s_dot_csv ELSE filename
        wrong == extension(named) \notin formats
        path == IF wrong THEN named \o s_dot_csv ELSE named
        file_format == IF wrong THEN s_csv ELSE extension(named)
    IN  also(dispatch(df, path, file_format, crs, geometry_column, order),
             (IF bare
              THEN {Report("warning", "File does not have extension, using csv", <<>>)}
              ELSE {}) \cup
             (IF wrong
              THEN {Report("error", "File has wrong extension, switching to .csv",
                           <<extension(named)>>)}
              ELSE {}))

\* to_buffer(dataframe, buffer, file_format, crs, geometry_column): the buffer
\* has no name
to_buffer(df, format, crs, geometry_column, order) ==
    LET wrong == lower(format) \notin formats
        file_format == IF wrong THEN s_csv ELSE lower(format)
    IN  also(dispatch(df, <<>>, file_format, crs, geometry_column, order),
             IF wrong
             THEN {Report("error", "Format is not supported, switching to csv",
                          <<lower(format)>>)}
             ELSE {})

-----------------------------------------------------------------------------
(* The export calls.                                                       *)

NoExport ==
    [op |-> "none", target |-> <<>>, fmt |-> <<>>, crs |-> CrsNone,
     geometry_column |-> NoneV]
NoOutcome ==
    [status |-> "none", writers |-> <<>>, path |-> <<>>, content |-> Nothing,
     destination |-> "none"]

\* file names: without an extension, with each recognised extension in some
\* letter case, with an unknown extension, with an empty one, and with a dot
\* in the directory only
FileNames ==
    { <<"o","u","t">>, <<"o","u","t",".","C","S","V">>, <<"o","u","t",".","x","l","s","x">>, <<"o","u","t",".","j","s","o","n">>, <<"o","u","t",".","g","e","o","j","s","o","n">>,
      <<"o","u","t",".","G","e","o","J","S","O","N">>, <<"o","u","t",".","u","n","k","n","o","w","n","e","x","t">>, <<"o","u","t",".">>, <<"v",".","1","/","o","u","t">> }

\* the formats asked of to_buffer
BufferFormats == { <<"c","s","v">>, <<"X","L","S","X">>, <<"j","s","o","n">>, <<"G","e","o","J","S","O","N">>, <<"t","x","t">> }

s_epsg_3857 == <<"E","P","S","G",":","3","8","5","7">>

\* the crs and geometry_column arguments of a geojson export
GeoArguments ==
    { <<CrsNone, NoneV>>,
      <<CrsNone, StrV(c_geom)>>,
      <<CrsInt(3857), StrV(c_geometry)>>,
      <<CrsStr(s_epsg_3857), StrV(c_geometry)>>,
      <<CrsDict({[k |-> c_geometry, v |-> IntV(32636)]}), StrV(c_geometry)>>,
      <<CrsDict({[k |-> c_geometry, v |-> StrV(s_epsg_3857)]}), StrV(c_geometry)>>,
      <<CrsDict({[k |-> c_geometry, v |-> IntV(32636)]}), NoneV>>,
      <<CrsDict({[k |-> c_geom, v |-> IntV(32636)]}), StrV(c_geometry)>>,
      <<CrsDict({[k |-> c_geometry, v |-> NoneV]}), StrV(c_geometry)>> }

\* the arguments tried with a format: crs and geometry_column are only looked
\* at by the geojson branch
ArgumentsOf(file_format) ==
    IF file_format = s_geojson THEN GeoArguments ELSE {<<CrsNone, NoneV>>}

\* the orders in which set(dataframe.columns) can yield the labels; only
\* to_json and to_geojson iterate over the set
SetOrders(df, file_format) ==
    IF file_format \in {s_json, s_geojson}
    THEN LET labels == {df.cols[j].name : j \in 1..ncols(df)}
         IN  {o \in [1..Cardinality(labels) -> labels] :
                 \A i, j \in 1..Cardinality(labels) : o[i] = o[j] => i = j}
    ELSE {<<>>}

\* what becomes of writing to a path: open(path, "w") works or raises, and the
\* writing into the opened file gets to its end or raises on the way
IOOutcomes == {"ok", "open_fails", "write_fails"}

\* the file a writer leaves at its path. Every writer opens the path itself
\* for writing, which empties an existing file, and writes into it piece by
\* piece (json.dump(..., file), DataFrame.to_csv(path), DataFrame.to_excel(path));
\* none writes elsewhere first and none has an except clause, so an error
\* while writing leaves the pieces written so far and reaches the caller. A
\* call that ends before its writer opens the path leaves the path alone.
stored(out, io) ==
    IF ~out.content.written
    THEN [status |-> out.status, content |-> out.content, destination |-> "untouched"]
    ELSE CASE io = "open_fails" ->
                [status |-> "OSError", content |-> Nothing, destination |-> "untouched"]
           [] io = "write_fails" ->
                [status |-> "OSError", content |-> Nothing, destination |-> "partial"]
           [] OTHER ->
                [status |-> out.status, content |-> out.content, destination |-> "written"]

\* a buffer is no file
buffered(out) ==
    [status |-> out.status, content |-> out.content, destination |-> "none"]

\* an export call on the DataFrame df, and what it leaves
ExportedFrom(df, op, target, fmt, crs, geometry_column, out, kept) ==
    /\ xcall' = [op |-> op, target |-> target, fmt |-> fmt, crs |-> crs,
                 geometry_column |-> geometry_column]
    /\ xout' = [status |-> kept.status, writers |-> out.writers, path |-> out.path,
                content |-> kept.content, destination |-> kept.destination]
    /\ reports' = out.log
    /\ given' = df
    /\ frame' = IF out.writers = <<>> THEN df
                ELSE left_to_caller(out.writers[1], df)

Exported(op, target, fmt, crs, geometry_column, out, kept) ==
    /\ ExportedFrom(frame, op, target, fmt, crs, geometry_column, out, kept)
    /\ UNCHANGED <<prev, passes, planner_vars, procs, session, renaming>>

\* export.to_file(frame, filename, crs, geometry_column)
ToFile ==
    /\ xcall.op = "none"
    /\ \E filename \in FileNames :
         \E args \in ArgumentsOf(extension(filename)) :
           \E order \in SetOrders(frame, extension(filename)) :
             \E out \in {to_file(frame, filename, args[1], args[2], order)} :
               \E io \in IOOutcomes :
                 /\ out.content.written \/ io = "ok"
                 /\ Exported("to_file", filename, <<>>, args[1], args[2],
                             out, stored(out, io))

\* export.to_buffer(frame, buffer, file_format, crs, geometry_column)
ToBuffer ==
    /\ xcall.op = "none"
    /\ \E format \in BufferFormats :
         \E args \in ArgumentsOf(lower(format)) :
           \E order \in SetOrders(frame, lower(format)) :
             \E out \in {to_buffer(frame, format, args[1], args[2], order)} :
                Exported("to_buffer", <<>>, format, args[1], args[2],
                         out, buffered(out))

\* the normalisation the command line applies before it exports
NormalizeOnce == Normalize(1)

-----------------------------------------------------------------------------
(* From the planner to the file: what the query and select-table commands  *)
(* do with a result once they have it.                                     *)

\* the output files a command is given
OutputNames == { <<"o","u","t",".","g","e","o","j","s","o","n">>, <<"o","u","t">> }

\* the geometry columns a command is given; "geometry" is the default of the
\* option
GeometryColumns == { c_geometry, c_geom }

\* table_data = beautify_dataframe(table_data); print_df(table_data);
\* export_df.to_file(table_data, output_filename, crs_dict, geometry_column)
SaveResult ==
    /\ result.status = "returned"
    /\ xcall.op = "none"
    /\ beautify_dataframe(result.frame).status = "returned"
    /\ \E filename \in OutputNames, geometry_column \in GeometryColumns :
       \E table_data \in {beautify_dataframe(result.frame).frame} :
       \E order \in SetOrders(table_data, extension(filename)) :
       \E out \in {to_file(table_data, filename, result.crs,
                            StrV(geometry_column), order)} :
       \E io \in IOOutcomes :
          /\ out.content.written \/ io = "ok"
          /\ ExportedFrom(table_data, "to_file", filename, <<>>, result.crs,
                          StrV(geometry_column), out, stored(out, io))
    /\ prev' = result.frame
    /\ passes' = 1
    /\ UNCHANGED <<planner_vars, procs, session, renaming>>

\* the command ends: its result, its DataFrame and its export are gone, what
\* it committed stays
CommandEnds ==
    /\ call.op /= "none"
    /\ call' = NoCall
    /\ sent' = <<>>
    /\ result' = NoResult
    /\ source' = NoSource
    /\ frame' = NoFrame /\ prev' = NoFrame /\ given' = NoFrame /\ passes' = 0
    /\ xcall' = NoExport /\ xout' = NoOutcome /\ reports' = {}
    /\ UNCHANGED <<committed, procs, session, renaming>>

-----------------------------------------------------------------------------
(* pg_save/cli: the command-line operations and their connection.          *)
(*                                                                         *)
(* An operation is a record [cmd, pc, conn, exit, commands, interrupts]:   *)
(* pc is "connected" once get_connection() returned, "fetched" once the    *)
(* data is at hand and "terminated" at the end; conn is "open" until       *)
(* conn.close() is called; exit is "0", "1" (sys.exit(1)) or "raised" (an  *)
(* exception left the command).                                            *)

Commands == {"query", "select-table", "describe-table", "list-tables", "interactive"}

Proc(cmd, pc, conn, exit, commands, interrupts) ==
    [cmd |-> cmd, pc |-> pc, conn |-> conn, exit |-> exit,
     commands |-> commands, interrupts |-> interrupts]

Terminated(p, conn, exit) == Proc(p.cmd, "terminated", conn, exit, p.commands, p.interrupts)

\* what select(), get_table() and the describing functions can end in: a
\* result, an error of the statement, a refusal, a lost connection
SelectOutcomes == {"returned", "UnsafeExpressionError", "OperationalError"} \cup QueryErrors
TableOutcomes == {"returned", "OperationalError"} \cup QueryErrors
DescribeOutcomes == {"returned", "NoTableOrMatViewFoundError", "OperationalError"}
\* what beautify_dataframe, print_df and to_file can end in
OutputOutcomes == {"returned", "ValueError"}

\* conn = db_config.get_connection(): a connection, or DbConnectionError
GetConnection ==
    /\ Len(procs) < MaxProcs
    /\ \E cmd \in Commands, connects \in BOOLEAN :
          procs' = Append(procs,
                          IF connects
                          THEN Proc(cmd, "connected", "open", "none", 0, 0)
                          ELSE Proc(cmd, "terminated", "none", "raised", 0, 0))
    /\ UNCHANGED <<planner_vars, frame_vars, export_vars, session, renaming>>

Step(i, p) ==
    /\ procs' = [procs EXCEPT ![i] = p]
    /\ UNCHANGED <<planner_vars, frame_vars, export_vars, session, renaming>>

At(i, cmd, pc) == procs[i].cmd = cmd /\ procs[i].pc = pc

\* execute_query: select() in try / except ... sys.exit(1) / finally conn.close()
ExecuteQuery ==
    \E i \in 1..Len(procs), outcome \in SelectOutcomes :
        /\ At(i, "query", "connected")
        /\ Step(i, IF outcome = "returned"
                   THEN Proc("query", "fetched", "closed", "none", 0, 0)
                   ELSE Terminated(procs[i], "closed", "1"))

\* execute_query: beautify_dataframe, print_df and to_file after the finally
ExecuteQueryOutput ==
    \E i \in 1..Len(procs), outcome \in OutputOutcomes :
        /\ At(i, "query", "fetched")
        /\ Step(i, Terminated(procs[i], procs[i].conn,
                              IF outcome = "returned" THEN "0" ELSE "raised"))

\* select_table: get_table() in try / except UndefinedTable: sys.exit(1)
SelectTable ==
    \E i \in 1..Len(procs), outcome \in TableOutcomes :
        /\ At(i, "select-table", "connected")
        /\ Step(i, IF outcome = "returned"
                   THEN Proc("select-table", "fetched", procs[i].conn, "none", 0, 0)
                   ELSE Terminated(procs[i], procs[i].conn,
                                   IF outcome = "UndefinedTable" THEN "1" ELSE "raised"))

\* select_table: beautify_dataframe, print_df and to_file, then the end of
\* the function
SelectTableOutput ==
    \E i \in 1..Len(procs), outcome \in OutputOutcomes :
        /\ At(i, "select-table", "fetched")
        /\ Step(i, Terminated(procs[i], procs[i].conn,
                              IF outcome = "returned" THEN "0" ELSE "raised"))

\* describe_table: try / except NoTableOrMatViewFoundError: sys.exit(1) /
\* finally conn.close()
DescribeTable ==
    \E i \in 1..Len(procs), outcome \in DescribeOutcomes :
        /\ At(i, "describe-table", "connected")
        /\ Step(i, Terminated(procs[i], "closed",
                              CASE outcome = "returned" -> "0"
                                [] outcome = "NoTableOrMatViewFoundError" -> "1"
                                [] OTHER -> "raised"))

\* list_tables: try / finally conn.close()
ListTables ==
    \E i \in 1..Len(procs), outcome \in DescribeOutcomes \ {"NoTableOrMatViewFoundError"} :
        /\ At(i, "list-tables", "connected")
        /\ Step(i, Terminated(procs[i], "closed",
                              IF outcome = "returned" THEN "0" ELSE "raised"))

\* interactive_mode: one command of the loop; whatever it ends in is printed
\* and the loop goes on with the same connection; interrupt_count is reset
\* at the end of the try block only
InteractiveCommand ==
    \E i \in 1..Len(procs), outcome \in SelectOutcomes :
        /\ At(i, "interactive", "connected")
        /\ procs[i].commands < MaxCommands
        /\ Step(i, [procs[i] EXCEPT !.commands = @ + 1,
                                    !.interrupts = IF outcome = "returned" THEN 0 ELSE @])

\* interactive_mode: Ctrl+C, which leaves the loop the second time in a row
InteractiveInterrupt ==
    \E i \in 1..Len(procs) :
        /\ At(i, "interactive", "connected")
        /\ Step(i, IF procs[i].interrupts + 1 > 1
                   THEN Terminated(procs[i], procs[i].conn, "0")
                   ELSE [procs[i] EXCEPT !.interrupts = @ + 1])

\* interactive_mode: q, \q, quit or exit leaves the loop and the function
InteractiveQuit ==
    \E i \in 1..Len(procs) :
        /\ At(i, "interactive", "connected")
        /\ Step(i, Terminated(procs[i], procs[i].conn, "0"))

-----------------------------------------------------------------------------
(* The interactive session and the renaming of labels, before they start.  *)

NoSession ==
    [state |-> "none",
     settings |-> [geometry_column |-> c_geometry, use_centroids |-> FALSE,
                   execute_as_is |-> FALSE],
     interrupt_count |-> 0,
     last |-> [input |-> <<"\n">>, ended |-> "none", error |-> "none", planned |-> NoCall,
               saved |-> NoneV,
               settings |-> [geometry_column |-> c_geometry, use_centroids |-> FALSE,
                             execute_as_is |-> FALSE]],
     previous |-> "none"]
NoRenaming == [before |-> <<>>, after |-> <<>>]

-----------------------------------------------------------------------------
(* The renaming step of beautify_dataframe on its own: any sequence of     *)
(* labels, those that look like generated ones included.                   *)

MaxLabels == 3

LabelNames == { <<"i","d">>, <<"i","d","_","0">>, <<"i","d","_","1">>, <<"i","d","_","0","_","0">>, <<"n","a","m","e">> }

RECURSIVE LabelSeqs(_)
\* the sequences of at most k labels
LabelSeqs(k) ==
    IF k = 0 THEN {<<>>}
    ELSE LabelSeqs(k - 1) \cup
         {s \o <<l>> : s \in LabelSeqs(k - 1), l \in LabelNames}

\* dataframe = dataframe.rename(rename_func, axis=1)
Rename ==
    /\ \E names \in LabelSeqs(MaxLabels) :
          renaming' = [before |-> names, after |-> rename(names)]
    /\ UNCHANGED <<planner_vars, frame_vars, export_vars, procs, session>>


-----------------------------------------------------------------------------
(* The interactive mode: cli/interactive.py, utils/interactive.py.         *)
(* A session holds the three settings of the loop, interrupt_count, and   *)
(* how the last prompt was handled: the line typed ("^C" for Ctrl+C), how *)
(* its handling ended, the call made to the planner, the file name given  *)
(* to to_file, and the settings before it; and how the prompt before it   *)
(* ended.                                                                  *)

\* str.rfind(c): index of the last c, 0 when there is none (python: -1)
rfind(s, c) ==
    IF \E i \in 1..Len(s) : s[i] = c
    THEN CHOOSE i \in 1..Len(s) : s[i] = c /\ \A j \in (i + 1)..Len(s) : s[j] /= c
    ELSE 0

\* str.rfind(c, start, end) on python's half-open slice [start, end)
rfind_in(s, c, start, end) ==
    LET found == {i \in (start + 1)..end : i <= Len(s) /\ s[i] = c}
    IN  IF found = {} THEN 0 ELSE CHOOSE i \in found : \A j \in found : j <= i

\* str.count(c) for one character, and str.count('\\"')
count(s, c) == Cardinality({i \in 1..Len(s) : s[i] = c})
count_escaped(s) == Cardinality({i \in 1..(Len(s) - 1) : s[i] = "\\" /\ s[i + 1] = "\""})

\* str.replace('\\"', '"')
unescape(s) ==
    LET kept == {i \in 1..Len(s) : ~(s[i] = "\\" /\ i < Len(s) /\ s[i + 1] = "\"")}
        nth(k) == CHOOSE i \in kept : Cardinality({j \in kept : j <= i}) = k
    IN  [k \in 1..Cardinality(kept) |-> s[nth(k)]]

\* str.strip(chars)
strip_chars(s, chars) == rstrip(lstrip(s, chars), chars)

\* str.split() without a separator: the words between runs of blanks
words(s) == SelectSeq(split(s, " "), LAMBDA w : w /= <<>>)

Settings(geometry_column, use_centroids, execute_as_is) ==
    [geometry_column |-> geometry_column, use_centroids |-> use_centroids,
     execute_as_is |-> execute_as_is]

\* how the handling of one prompt ended:
\*   "reset"     the end of the try block, interrupt_count = 0 (line 116)
\*   "continue"  a continue statement (lines 90, 95)
\*   "reported"  one of the except clauses of the loop (lines 124-137)
\*   "interrupt" except KeyboardInterrupt, first time (lines 118-123)
\*   "break"     the loop is left (lines 83, 121)
\*   "sys.exit"  sys.exit(1) inside a handler
Handled(input, ended, error, planned, saved, settings) ==
    [input |-> input, ended |-> ended, error |-> error, planned |-> planned,
     saved |-> saved, settings |-> settings]

Silent(input, ended, settings) == Handled(input, ended, "none", NoCall, NoneV, settings)
Reported(input, error, planned, settings) ==
    Handled(input, "reported", error, planned, NoneV, settings)

Planned(op, text, flag) == [op |-> op, text |-> text, flag |-> flag]

\* the contents of the query file of this model
FileText == <<"s","e","l","e","c","t"," ","a"," ","f","r","o","m"," ","t">>
\* os.path.isfile(query) and open(query).read(): no such file, a file that
\* is read, a file that cannot be read
FileStates == {"absent", "readable", "unreadable"}

\* what a planner call of the session can end in: a statement with a stop
\* phrase is refused, any other is sent
planner_outcomes(planned) ==
    CASE planned.op = "select" ->
             IF found_stop_phrases(stripped(planned.text)) /= {}
             THEN {"UnsafeExpressionError"}
             ELSE SelectOutcomes \ {"UnsafeExpressionError"}
      [] planned.op = "get_table" -> TableOutcomes
      [] planned.op = "describe_table" -> DescribeOutcomes
      [] planned.op = "list_tables" -> DescribeOutcomes \ {"NoTableOrMatViewFoundError"}
      [] OTHER -> {"returned"}

\* os.path.isfile(query) is true of the names of QueryFiles only
QueryFiles == { <<"q",".","s","q","l">> }
file_state(query, file) == IF query \in QueryFiles THEN file ELSE "absent"

\* utils/interactive.py: select_table(command, conn)
interactive_select_table(command, outcome, settings) ==
    IF ~contains(command, <<" ">>)
    THEN Silent(command, "reset", settings)
    ELSE LET gt == rfind(command, ">")
             filename == IF gt > 0
                         THEN StrV(strip_chars(strip(SubSeq(command, gt + 1, Len(command))),
                                               {"'", "\""}))
                         ELSE NoneV
             table_end == IF gt > 0 THEN gt - 1 ELSE Len(command)
             table_name == strip(SubSeq(command, 3, table_end))
             planned == Planned("get_table", table_name, FALSE)
         IN  IF outcome = "returned"
             THEN Handled(command, "reset", "none", planned, filename, settings)
             ELSE Reported(command, outcome, planned, settings)

\* utils/interactive.py: quoted_command(command, conn, geometry_column,
\* execute_as_is). more is what is typed at the '>>>"' prompts: lines, the
\* last of them possibly "^C"; typed is the command after the input loop
\* and line the last line read by it (Unbound when the loop was not entered)
Unbound == <<"\n">>
CtrlC == <<"^","C">>

RECURSIVE read_more(_, _, _)
read_more(command, more, line) ==
    IF more = <<>>
    THEN [command |-> command, line |-> line]
    ELSE IF Head(more) = CtrlC
    THEN [command |-> <<>>, line |-> line]
    ELSE IF count(Head(more), "\"") - count_escaped(Head(more)) /= 0
    THEN [command |-> command \o <<" ">> \o Head(more), line |-> Head(more)]
    ELSE read_more(command \o <<" ">> \o Head(more), Tail(more), Head(more))

needs_more(command) ==
    \/ ~contains(Tail(command), <<"\"">>)
    \/ count(command, "\"") - count_escaped(command) = 0

quoted_command(input, more, file, outcome, settings) ==
    LET typed == IF needs_more(input) THEN read_more(input, more, Unbound)
                 ELSE [command |-> input, line |-> Unbound]
        command == typed.command
        line == typed.line
    IN  IF strip(command) = <<>>
        THEN Silent(input, "reset", settings)
        ELSE IF line = Unbound
        THEN Reported(input, "UnboundLocalError", NoCall, settings)
        ELSE LET redirected == rfind(line, ">") > rfind(line, "\"")
                 filename == IF redirected
                             THEN StrV(strip(strip_chars(SubSeq(line, rfind(line, ">") + 1, Len(line)),
                                                         {"'", "\"", " "})))
                             ELSE NoneV
                 query_end == IF redirected
                              THEN rfind_in(command, "\"", 2, rfind(command, ">") - 1)
                              ELSE rfind(command, "\"")
                 typed_query == unescape(strip(SubSeq(command, 2,
                                    IF query_end = 0 THEN Len(command) - 1 ELSE query_end - 1)))
                 found == file_state(typed_query, file)
                 query == IF found = "readable" THEN FileText ELSE typed_query
                 planned == Planned("select", query, settings.execute_as_is)
             IN  IF found = "unreadable"
                 THEN Reported(input, "OSError", NoCall, settings)
                 ELSE IF outcome = "returned"
                 THEN Handled(input, "reset", "none", planned, filename, settings)
                 ELSE Reported(input, outcome, planned, settings)

\* utils/interactive.py: command_with_save(command, conn, geometry_column,
\* execute_as_is)
command_with_save(command, file, outcome, settings) ==
    LET gt == rfind(command, ">")
        typed_query == IF gt > 0 THEN strip(SubSeq(command, 1, gt - 1)) ELSE command
        filename == IF gt > 0
                    THEN StrV(strip_chars(strip(SubSeq(command, gt + 1, Len(command))),
                                          {"'", "\""}))
                    ELSE NoneV
        found == file_state(typed_query, file)
        query == IF found = "readable" THEN FileText ELSE typed_query
        planned == Planned("select", query, settings.execute_as_is)
    IN  IF found = "unreadable"
        THEN Handled(command, "sys.exit", "Exception on file read", NoCall, NoneV, settings)
        ELSE IF outcome = "returned"
        THEN Handled(command, "reset", "none", planned, filename, settings)
        ELSE Reported(command, outcome, planned, settings)

\* cli/interactive.py lines 81-116: the body of the try block for one line
interactive_line(command, more, file, outcome, settings) ==
    IF command \in { <<"q">>, <<"\\","q">>, <<"q","u","i","t">>, <<"e","x","i","t">> }
    THEN Silent(command, "break", settings)
    ELSE IF startswith(command, <<"\\","d","t">>)
    THEN LET schema == IF contains(command, <<" ">>) THEN words(command)[2] ELSE <<>>
             planned == Planned("list_tables", schema, FALSE)
         IN  IF outcome = "returned"
             THEN Handled(command, "reset", "none", planned, NoneV, settings)
             ELSE Reported(command, outcome, planned, settings)
    ELSE IF startswith(command, <<"\\","d">>)
    THEN IF ~contains(command, <<" ">>)
         THEN Silent(command, "continue", settings)
         ELSE LET planned == Planned("describe_table", words(command)[2], FALSE)
              IN  IF outcome = "returned"
                  THEN Handled(command, "reset", "none", planned, NoneV, settings)
                  ELSE Reported(command, outcome, planned, settings)
    ELSE IF startswith(command, <<"\\","g">>)
    THEN IF ~contains(command, <<" ">>)
         THEN Silent(command, "continue", settings)
         ELSE Silent(command, "reset",
                     [settings EXCEPT !.geometry_column = words(command)[2]])
    ELSE IF command \in { <<"\\","u","s","e","_","c","e","n","t","r","o","i","d","s">>, <<"\\","c">> }
    THEN Silent(command, "reset", [settings EXCEPT !.use_centroids = ~@])
    ELSE IF command \in { <<"\\","e","x","e","c","u","t","e","_","a","s","_","i","s">>, <<"\\","r">> }
    THEN Silent(command, "reset", [settings EXCEPT !.execute_as_is = ~@])
    ELSE IF startswith(command, <<"\\","s">>)
    THEN interactive_select_table(command, outcome, settings)
    ELSE IF command = <<>>
    THEN Reported(command, "IndexError", NoCall, settings)
    ELSE IF command[1] = "\""
    THEN quoted_command(command, more, file, outcome, settings)
    ELSE IF command = <<"h","e","l","p">>
    THEN Silent(command, "reset", settings)
    ELSE command_with_save(command, file, outcome, settings)

\* the lines typed at the ">> " prompt in this model
Lines ==
    { <<"q">>, <<"\\","c">>, <<"\\","u","s","e","_","c","e","n","t","r","o","i","d","s">>, <<"\\","r">>, <<"\\","g">>, <<"\\","g"," ","g","e","o","m">>,
      <<"\\","d">>, <<"\\","d"," ","t">>, <<"\\","d","t">>, <<"\\","s">>, <<"\\","s"," ","t">>, <<"\\","s"," ","t"," ",">"," ","o","u","t",".","c","s","v">>,
      <<"\"","s","e","l","e","c","t"," ","a"," ","f","r","o","m"," ","t","\"">>, <<"\"","s","e","l","e","c","t"," ","a"," ","f","r","o","m"," ","t","\""," ",">"," ","o","u","t",".","c","s","v">>, <<"\"","s","e","l","e","c","t"," ","a">>,
      <<"s","e","l","e","c","t"," ","a"," ","f","r","o","m"," ","t">>, <<"s","e","l","e","c","t"," ","a"," ","f","r","o","m"," ","t"," ",">"," ","o","u","t",".","c","s","v">>,
      <<"s","e","l","e","c","t"," ","a"," ","f","r","o","m"," ","t"," ","w","h","e","r","e"," ","a"," ",">"," ","1"," ","a","n","d"," ","b"," ","="," ","2">>, <<"u","p","d","a","t","e"," ","t"," ","s","e","t"," ","a"," ","="," ","1">>,
      <<"q",".","s","q","l">>, <<>>, <<"h","e","l","p">> }

\* what is typed at the '>>>"' prompts after a line that opens a quote
MoreLines ==
    { << <<"f","r","o","m"," ","t","\"">> >>, << <<"f","r","o","m"," ","t","\""," ",">"," ","o","u","t",".","c","s","v">> >>, << <<"f","r","o","m"," ","t">>, CtrlC >>,
      << <<"f","r","o","m"," ","t">>, <<"w","h","e","r","e"," ","a"," ","="," ","1","\"">> >> }

Options == { Settings(g, c, r) : g \in {c_geometry, c_geom}, c \in BOOLEAN, r \in BOOLEAN }

Session(state, settings, interrupt_count, last, previous) ==
    [state |-> state, settings |-> settings, interrupt_count |-> interrupt_count,
     last |-> last, previous |-> previous]

NoLine == <<"\n">>

\* interactive_mode(...) is called with its options; interrupt_count = 0
InteractiveStart ==
    /\ session.state = "none"
    /\ \E options \in Options :
          session' = Session("running", options, 0,
                             Silent(NoLine, "none", options), "none")
    /\ UNCHANGED <<planner_vars, frame_vars, export_vars, procs, renaming>>

\* one line typed at the prompt and handled by the try block and the except
\* clauses of the loop
InteractiveLine ==
    /\ session.state = "running"
    /\ \E command \in Lines :
       \E file \in (IF \E name \in QueryFiles : contains(command, name)
                    THEN FileStates ELSE {"absent"}) :
       \E more \in (IF command /= <<>> /\ command[1] = "\"" /\ needs_more(command)
                    THEN MoreLines ELSE {<<>>}) :
       \E calm \in {interactive_line(command, more, file, "returned", session.settings)} :
       \E outcome \in planner_outcomes(calm.planned) :
       \E handled \in {interactive_line(command, more, file, outcome, session.settings)} :
          session' = Session(CASE handled.ended = "break" -> "left"
                               [] handled.ended = "sys.exit" -> "exited"
                               [] OTHER -> "running",
                             handled.settings,
                             IF handled.ended = "reset" THEN 0 ELSE session.interrupt_count,
                             [handled EXCEPT !.settings = session.settings],
                             session.last.ended)
    /\ UNCHANGED <<planner_vars, frame_vars, export_vars, procs, renaming>>

\* Ctrl+C at the prompt: except KeyboardInterrupt of the loop
InteractiveCtrlC ==
    /\ session.state = "running"
    /\ LET interrupt_count == session.interrupt_count + 1
       IN  session' = Session(IF interrupt_count > 1 THEN "left" ELSE "running",
                              session.settings, interrupt_count,
                              Silent(CtrlC, IF interrupt_count > 1 THEN "break" ELSE "interrupt",
                                     session.settings),
                              session.last.ended)
    /\ UNCHANGED <<planner_vars, frame_vars, export_vars, procs, renaming>>


-----------------------------------------------------------------------------
(* Specifications.                                                         *)

Init ==
    /\ call = NoCall
    /\ sent = <<>>
    /\ result = NoResult
    /\ committed = {}
    /\ source = NoSource
    /\ frame = NoFrame
    /\ prev = NoFrame
    /\ given = NoFrame
    /\ passes = 0
    /\ xcall = NoExport
    /\ xout = NoOutcome
    /\ reports = {}
    /\ procs = <<>>
    /\ session = NoSession
    /\ renaming = NoRenaming

\* the query planner under any sequence of calls
NextPlanner == Select \/ GetTable \/ Discard
SpecPlanner == Init /\ [][NextPlanner]_vars

\* beautify_dataframe applied, and applied again, to any DataFrame
NextNormalize == Load \/ NormalizeAgain
SpecNormalize == Init /\ [][NextNormalize]_vars

\* any DataFrame, normalised or not, exported to a file or to a buffer
NextExport == Load \/ NormalizeOnce \/ ToFile \/ ToBuffer
SpecExport == Init /\ [][NextExport]_vars

\* a query or a table fetched and saved
NextPipeline == Select \/ GetTable \/ SaveResult \/ CommandEnds
SpecPipeline == Init /\ [][NextPipeline]_vars

\* the renaming of any sequence of labels
NextRename == Rename
SpecRename == Init /\ [][NextRename]_vars

\* an interactive session: any lines and interrupts at its prompt
NextInteractive == InteractiveStart \/ InteractiveLine \/ InteractiveCtrlC
SpecInteractive == Init /\ [][NextInteractive]_vars

\* the command-line operations, each with its own connection
NextCli ==
    \/ GetConnection
    \/ ExecuteQuery \/ ExecuteQueryOutput
    \/ SelectTable \/ SelectTableOutput
    \/ DescribeTable \/ ListTables
    \/ InteractiveCommand \/ InteractiveInterrupt \/ InteractiveQuit
SpecCli == Init /\ [][NextCli]_vars

-----------------------------------------------------------------------------
(* Claims about the query planner, checked under SpecPlanner.              *)

\* C1 (as stated): select() rejects as unsafe every query text that, after
\* lower-casing and stripping trailing semicolons, contains a stop phrase,
\* and on rejection it has sent no statement to the source.
C1_RejectsSemicolonStripped ==
    (/\ call.op = "select"
     /\ \E p \in stop_phrases : contains(lower(rstrip(call.text, {";"})), p))
        => (result.status = "UnsafeExpressionError" /\ sent = <<>>)

\* C1 (amended): select() rejects as unsafe every query text that, after
\* stripping surrounding whitespace, then trailing semicolons, and lower-casing,
\* contains a stop phrase, in any letter case; on rejection it has sent no
\* statement to the source, not even the type-catalog lookup.
C1_RejectsStopPhrases ==
    (/\ call.op = "select"
     /\ \E p \in stop_phrases :
            contains(lower(rstrip(rstrip(lstrip(call.text, Whitespace), Whitespace), {";"})), p))
        => (result.status = "UnsafeExpressionError" /\ sent = <<>>)

\* The specification's example, "SELECT 1; DROP TABLE users", was rejected
\* with nothing sent.
C1_Witness ==
    /\ call.op = "select"
    /\ call.text = <<"S","E","L","E","C","T"," ","1",";"," ","D","R","O","P"," ","T","A","B","L","E"," ","u","s","e","r","s">>
    /\ result.status = "UnsafeExpressionError"
    /\ sent = <<>>

\* C2: over every sequence of get_table() and select() calls, no
\* state-changing statement takes effect on the source.
C2_SourceNeverWritten == committed = {}

-----------------------------------------------------------------------------
(* Claims about beautify_dataframe, checked under SpecNormalize.           *)

\* the column names beautify_dataframe renamed in its last pass: those of prev,
\* after the name of the index when the index was folded into a column
renamed_names ==
    IF ncols(frame) > ncols(prev)
    THEN <<reset_index_name(prev)>> \o columns(prev)
    ELSE columns(prev)
occurrences(names, name) == Cardinality({i \in 1..Len(names) : names[i] = name})
earlier(names, j) == Cardinality({i \in 1..(j - 1) : names[i] = names[j]})
suffixed(name, k) == name \o <<"_">> \o str_int(k)

\* no column already bears the name a duplicated column is about to get
collision_free(names) ==
    \A i, j \in 1..Len(names) :
        \A k \in 0..(Len(names) - 1) : names[i] /= suffixed(names[j], k)

\* C3 (as stated): beautify_dataframe leaves the first occurrence of a column
\* name unchanged and suffixes each later occurrence with an incrementing
\* counter in column order ("id", "id" become "id", "id_0").
C3_FirstKeepsName ==
    passes = 1 =>
        \A j \in 1..Len(renamed_names) :
            frame.cols[j].name =
                IF earlier(renamed_names, j) = 0
                THEN renamed_names[j]
                ELSE suffixed(renamed_names[j], earlier(renamed_names, j) - 1)

\* C3 (amended): when no column already bears a generated name,
\* beautify_dataframe suffixes every occurrence of a duplicated column name,
\* the first included, with a counter that starts at 0 and increments in column
\* order ("id", "id" become "id_0", "id_1"), and leaves a name that occurs once
\* unchanged.
C3_EveryOccurrenceSuffixed ==
    (passes = 1 /\ collision_free(renamed_names)) =>
        \A j \in 1..Len(renamed_names) :
            frame.cols[j].name =
                IF occurrences(renamed_names, renamed_names[j]) > 1
                THEN suffixed(renamed_names[j], earlier(renamed_names, j))
                ELSE renamed_names[j]

\* Two columns both named "id" were normalised.
C3_Witness ==
    /\ passes = 1
    /\ columns(prev) = <<c_id, c_id>>
    /\ columns(frame) = <<<<"i","d","_","0">>, <<"i","d","_","1">>>>

\* C4: beautify_dataframe is idempotent: a second pass leaves the column names,
\* the column order, the row index and the values of the first pass as they are.
C4_Idempotent == passes >= 2 => frame = prev

\* A DataFrame whose index was folded into a column, whose duplicate names were
\* resolved and whose NaN became None was normalised a second time.
C4_Witness ==
    /\ passes = 2
    /\ columns(frame) = <<s_index, <<"i","d","_","0">>, <<"i","d","_","1">>>>
    /\ \E r \in 1..nrows(frame) : frame.cols[3].vals[r] = NoneV
    /\ \E r \in 1..nrows(frame) : frame.cols[3].vals[r].t = "int"


-----------------------------------------------------------------------------
(* Claims about the exporters, checked under SpecExport.                   *)

\* s ends with suffix, letter case aside
ends_with(s, suffix) ==
    Len(s) >= Len(suffix) /\ lower(SubSeq(s, Len(s) - Len(suffix) + 1, Len(s))) = suffix

\* the format the last export call asked for, or <<>> when the call names none
\* of the four
asked_format ==
    IF xcall.op = "to_file"
    THEN IF \E f \in formats : ends_with(xcall.target, <<".">> \o f)
         THEN CHOOSE f \in formats : ends_with(xcall.target, <<".">> \o f)
         ELSE <<>>
    ELSE IF xcall.op = "to_buffer" /\ lower(xcall.fmt) \in formats
    THEN lower(xcall.fmt)
    ELSE <<>>

\* the geometry column the last export call designates
designated ==
    IF xcall.geometry_column.t = "none" THEN c_geometry ELSE xcall.geometry_column.s

\* C5: an export to geojson whose designated geometry column is absent from
\* the DataFrame writes nothing to the destination, reports the missing
\* geometry column and returns to its caller without raising.
C5_MissingGeometryWritesNothing ==
    (/\ xcall.op \in {"to_file", "to_buffer"}
     /\ asked_format = s_geojson
     /\ \A j \in 1..ncols(frame) : frame.cols[j].name /= designated)
        => /\ xout.status = "returned"
           /\ ~xout.content.written
           /\ \E rep \in reports : rep.level = "error" /\ rep.args = <<designated>>

\* The specification's example: "out.geojson" with the geometry column "geom",
\* which a DataFrame with rows does not have.
C5_Witness ==
    /\ xcall.op = "to_file"
    /\ xcall.target = <<"o","u","t",".","g","e","o","j","s","o","n">>
    /\ xcall.geometry_column = StrV(c_geom)
    /\ nrows(frame) > 0 /\ ncols(frame) > 0
    /\ xout.writers = <<"to_geojson">>
    /\ xout.status = "returned"
    /\ ~xout.content.written

writer_of(f) ==
    CASE f = s_csv -> "to_csv"
      [] f = s_xlsx -> "to_excel"
      [] f = s_json -> "to_json"
      [] f = s_geojson -> "to_geojson"

document_of(f) ==
    CASE f = s_csv -> "csv"
      [] f = s_xlsx -> "xlsx"
      [] f = s_json -> "json"
      [] f = s_geojson -> "geojson"

crs_by_precedence ==
    IF /\ xcall.crs.t = "dict"
       /\ xcall.geometry_column.t = "str"
       /\ \E e \in xcall.crs.d : e.k = xcall.geometry_column.s
    THEN (CHOOSE e \in xcall.crs.d : e.k = xcall.geometry_column.s).v
    ELSE IF xcall.crs.t = "int" THEN IntV(xcall.crs.n)
    ELSE IF xcall.crs.t = "str" THEN StrV(xcall.crs.s)
    ELSE IntV(4326)

unrepresentable(v) == v.t \in {"datetime", "bytes", "geojson", "geojson_point"}

\* the columns of the exported DataFrame that go into the rows of a json
\* document or into the properties of a geojson one
row_columns ==
    {j \in 1..ncols(frame) : asked_format = s_geojson => frame.cols[j].name /= designated}

\* C8 (as stated): a json export, and the properties of a geojson export, omit
\* every column whose values are spatial, temporal or binary, also when the
\* DataFrame was normalised first and when column names repeat, and the export
\* completes with every other column written.
C8_UnrepresentableColumnsOmitted ==
    (xcall.op \in {"to_file", "to_buffer"} /\ asked_format \in {s_json, s_geojson}
        /\ xout.content.written)
        => \A j \in row_columns : \A r \in 1..Len(xout.content.rows) :
              unrepresentable(frame.cols[j].vals[r]) =>
                 \A i \in 1..Len(xout.content.rows[r]) :
                    xout.content.rows[r][i].v /= json_token(frame.cols[j].vals[r])

\* the column of the exported DataFrame that column j of the result set became:
\* normalisation puts the folded index in front
source_frame == IF passes = 1 THEN prev ELSE frame
exported_column(j) == j + (ncols(frame) - ncols(source_frame))

\* a float column in which every value is whole or null
whole_floats(c) ==
    /\ c.dtype = "float64"
    /\ \A r \in 1..Len(c.vals) :
          c.vals[r].t = "nan" \/ (c.vals[r].t = "float" /\ c.vals[r].n % 2 = 0)

\* the key a json document gives column j of the exported DataFrame
json_key(j) ==
    IF occurrences(columns(frame), frame.cols[j].name) > 1
    THEN suffixed(frame.cols[j].name, earlier(columns(frame), j))
    ELSE frame.cols[j].name

\* the token written for row r of column j of the exported DataFrame
written_tokens(r, j) ==
    IF asked_format = s_json
    THEN {p.v : p \in {xout.content.rows[r][i] : i \in 1..Len(xout.content.rows[r])}
                \cap {q \in {xout.content.rows[r][i] : i \in 1..Len(xout.content.rows[r])} :
                        q.k = json_key(j)}}
    ELSE {xout.content.rows[r][j].v}

-----------------------------------------------------------------------------
(* Claims about the command line, checked under SpecCli.                   *)

\* C10: every command-line operation that acquired a connection has released
\* it when it terminates, whether it completed, exited with status 1 or was
\* left by an exception: no terminated operation has its connection open.
C10_ConnectionReleased ==
    \A i \in 1..Len(procs) : procs[i].pc = "terminated" => procs[i].conn /= "open"


-----------------------------------------------------------------------------
(* Claims about the results of the query planner, checked under            *)
(* SpecPlanner.                                                            *)

spatial(d) == d.type_code \in {"geometry", "geography"}
spatial_columns(desc) == {j \in 1..Len(desc) : spatial(desc[j])}

\* the last call got through all its statements: the source failed none, and
\* every statement left rows to fetch
undisturbed ==
    /\ source.fail.at = 0
    /\ Len(sent) >= 2
    /\ \A k \in 1..Len(sent) : returns_rows(sent[k])

\* C11: get_table returns the table's columns in the table's order under
\* their names; exactly the geometry/geography columns are projected, as
\* ST_AsGeoJSON(col) without use_centroids and as ST_AsGeoJSON(ST_Centroid(col))
\* with it, and every other column is returned as the source holds it.
C11_TableProjection ==
    (call.op = "get_table" /\ result.status = "returned") =>
        /\ columns(result.frame) = [j \in 1..Len(source.desc) |-> source.desc[j].name]
        /\ nrows(result.frame) = source.n
        /\ \A j \in 1..Len(source.desc) :
              /\ \A r \in 1..source.n :
                    result.frame.cols[j].vals[r] =
                       IF ~spatial(source.desc[j]) THEN source_value(source.desc[j], r)
                       ELSE IF call.flag
                       THEN ST_AsGeoJSON_Centroid(source_value(source.desc[j], r))
                       ELSE ST_AsGeoJSON(source_value(source.desc[j], r))
              /\ spatial(source.desc[j]) =>
                    contains(sent[Len(sent)],
                             (IF call.flag THEN <<"S","T","_","A","s","G","e","o","J","S","O","N","(","S","T","_","C","e","n","t","r","o","i","d","(","\"">>
                                           ELSE <<"S","T","_","A","s","G","e","o","J","S","O","N","(","\"">>)
                                \o source.desc[j].name \o <<"\"">>)

\* A table with the columns id and geom and rows was fetched with centroids:
\* geom holds GeoJSON points, id the integers of the table.
C11_Witness ==
    /\ call.op = "get_table" /\ call.flag
    /\ result.status = "returned"
    /\ columns(result.frame) = <<c_id, c_geom>>
    /\ nrows(result.frame) >= 2
    /\ result.frame.cols[2].vals[2].t = "geojson_point"
    /\ result.frame.cols[1].vals[2] = IntV(2)

\* C12 (as stated): select() without execute_as_is and with a non-empty
\* result gives, for every geometry/geography column of the result, the SRID
\* of the column's first row in the CRS map and the GeoJSON cast of each row's
\* value in the column, rows kept in number and order, and every other column
\* unchanged.
C12_QueryGeometryCast ==
    (call.op = "select" /\ ~call.flag /\ undisturbed /\ source.n > 0) =>
        /\ result.status = "returned"
        /\ nrows(result.frame) = source.n
        /\ columns(result.frame) = [j \in 1..Len(source.desc) |-> source.desc[j].name]
        /\ \A j \in 1..Len(source.desc) :
              IF spatial(source.desc[j])
              THEN /\ [k |-> source.desc[j].name, v |-> ST_SRID(source_value(source.desc[j], 1))]
                         \in result.crs.d
                   /\ \A r \in 1..source.n :
                         result.frame.cols[j].vals[r] =
                            ST_AsGeoJSON(source_value(source.desc[j], r))
              ELSE \A r \in 1..source.n :
                         result.frame.cols[j].vals[r] = source_value(source.desc[j], r)

\* C13: select() returns no CRS map when the result has no geometry/geography
\* column; with execute_as_is, or with a result without rows, it returns no CRS
\* map either and every value as the query returned it.
C13_NoCrsWithoutCast ==
    (call.op = "select" /\ result.status = "returned") =>
        /\ spatial_columns(source.desc) = {} => result.crs = CrsNone
        /\ (call.flag \/ source.n = 0) =>
              /\ result.crs = CrsNone
              /\ nrows(result.frame) = source.n
              /\ columns(result.frame) = [j \in 1..Len(source.desc) |-> source.desc[j].name]
              /\ \A j \in 1..Len(source.desc) : \A r \in 1..source.n :
                    result.frame.cols[j].vals[r] = source_value(source.desc[j], r)

\* A result with a geometry column and rows was selected with execute_as_is:
\* no CRS map, and the geometry as the source holds it.
C13_Witness ==
    /\ call.op = "select" /\ call.flag
    /\ result.status = "returned"
    /\ source.n > 0
    /\ columns(result.frame) = <<c_id, c_geom>>
    /\ result.crs = CrsNone
    /\ result.frame.cols[2].vals[1].t = "wkb"

\* C14: get_table returns no CRS map for a table without a geometry/geography
\* column; for a table with such columns and no rows it completes, returns all
\* columns without rows, and the CRS map has no entry for them; for a table
\* with rows every such column has its entry column -> SRID.
C14_TableCrs ==
    (call.op = "get_table" /\ undisturbed) =>
        /\ result.status = "returned"
        /\ ncols(result.frame) = Len(source.desc)
        /\ nrows(result.frame) = source.n
        /\ spatial_columns(source.desc) = {} => result.crs = CrsNone
        /\ \A j \in spatial_columns(source.desc) :
              IF source.n = 0
              THEN \A e \in result.crs.d : e.k /= source.desc[j].name
              ELSE /\ result.crs.t = "dict"
                   /\ [k |-> source.desc[j].name, v |-> ST_SRID(source_value(source.desc[j], 1))]
                         \in result.crs.d

\* A table with two spatial columns and no rows was fetched: both columns,
\* no rows, no CRS entry.
C14_Witness ==
    /\ call.op = "get_table"
    /\ result.status = "returned"
    /\ source.n = 0
    /\ columns(result.frame) = <<c_geometry, c_area>>
    /\ nrows(result.frame) = 0
    /\ result.crs.d = {}

\* C15: when the source fails a statement of get_table or select (the type
\* lookup, the probe of the columns, an SRID probe, the query, the re-cast),
\* the call ends there: the caller gets the source's error as it is, which is
\* not the refusal of an unsafe query, and neither a DataFrame nor a CRS map.
C15_FailureAborts ==
    /\ (call.op \in {"select", "get_table"} /\ source.fail.at > 0
            /\ Len(sent) = source.fail.at)
          => /\ result.status = source.fail.kind
             /\ result.status /= "UnsafeExpressionError"
    /\ (call.op \in {"select", "get_table"} /\ result.status /= "returned")
          => (result.frame = NoFrame /\ result.crs = CrsNone)

\* The batched re-cast of a select() failed: the fourth statement, and the
\* caller got the error of the source; and a table was not found.
C15_Witness ==
    /\ call.op = "select"
    /\ source.fail.at = 4 /\ Len(sent) = 4
    /\ startswith(sent[4], <<"S","E","L","E","C","T"," ","S","T","_","A","s","G","e","o","J","S","O","N","(">>)
    /\ result.status = "InternalError"
    /\ result.frame = NoFrame

\* C19: the statements select() sends number two (the type lookup and the
\* query) plus two for each geometry/geography column of the result (one
\* SRID probe, one batched re-cast), whatever the number of rows; none but
\* the two when the result is returned as it is or has no rows.
C19_StatementsPerColumn ==
    call.op = "select" =>
        /\ Len(sent) <= 2 + 2 * Cardinality(spatial_columns(source.desc))
        /\ result.status = "returned" =>
              Len(sent) = IF ~call.flag /\ source.n > 0
                          THEN 2 + 2 * Cardinality(spatial_columns(source.desc))
                          ELSE 2

\* A result with two spatial columns and several rows was cast with six
\* statements.
C19_Witness ==
    /\ call.op = "select" /\ ~call.flag
    /\ result.status = "returned"
    /\ source.n >= 2
    /\ Cardinality(spatial_columns(source.desc)) = 2
    /\ Len(sent) = 6


-----------------------------------------------------------------------------
(* Further claims about the exporters, checked under SpecExport.           *)

\* the last export call made again with another DataFrame and another
\* geometry column, the labels of a set taken in the given order
exported_again(df, geometry_column, order) ==
    IF xcall.op = "to_file"
    THEN to_file(df, xcall.target, xcall.crs, geometry_column, order)
    ELSE to_buffer(df, xcall.fmt, xcall.crs, geometry_column, order)

\* the format whose writer the last export call reaches
reached_format == IF asked_format = <<>> THEN s_csv ELSE asked_format

\* C16 (as stated): a geojson export of a DataFrame with N rows that has the
\* designated geometry column writes N features in row order; the geometry of
\* feature i is row i's value of the geometry column, its properties never
\* hold the geometry column, and the document has a name exactly when it goes
\* to a named file.
C16_OneFeaturePerRow ==
    (/\ xcall.op \in {"to_file", "to_buffer"}
     /\ asked_format = s_geojson
     /\ \E j \in 1..ncols(frame) : frame.cols[j].name = designated
     /\ xout.content.written)
        => /\ Len(xout.content.geometries) = nrows(frame)
           /\ Len(xout.content.rows) = nrows(frame)
           /\ \A i \in 1..Len(xout.content.geometries) :
                 \A j \in 1..ncols(frame) :
                    frame.cols[j].name = designated =>
                       xout.content.geometries[i] = json_token(frame.cols[j].vals[i])
           /\ \A i \in 1..Len(xout.content.rows) :
                 \A p \in 1..Len(xout.content.rows[i]) :
                    xout.content.rows[i][p].k /= designated
           /\ (xout.content.name /= <<>>) <=> (xcall.op = "to_file")

\* C17 (as stated): an export writes what the export of the normalised
\* DataFrame writes, for every DataFrame and every format: the exporters
\* normalise by themselves.
C17_ExportNormalizes ==
    (/\ xcall.op \in {"to_file", "to_buffer"}
     /\ passes = 0
     /\ nrows(frame) > 0
     /\ xout.status /= "OSError"
     /\ beautify_dataframe(frame).status = "returned")
        => \E order \in SetOrders(beautify_dataframe(frame).frame, reached_format) :
              LET again == exported_again(beautify_dataframe(frame).frame,
                                          xcall.geometry_column, order)
              IN  /\ again.status = xout.status
                  /\ again.content = xout.content

\* C20 (as stated): a geojson export without a geometry column writes what
\* the same export with the geometry column "geometry" writes: the column
\* "geometry" gives the geometries, and the entry of a CRS map for "geometry"
\* the crs name.
C20_UnsetMeansGeometry ==
    (/\ xcall.op \in {"to_file", "to_buffer"}
     /\ asked_format = s_geojson
     /\ xout.status /= "OSError"
     /\ xcall.geometry_column = NoneV)
        => \E order \in SetOrders(frame, s_geojson) :
              LET again == exported_again(frame, StrV(c_geometry), order)
              IN  /\ again.status = xout.status
                  /\ again.content = xout.content


\* C18 (as stated): an export to a file path that does not get to its end,
\* because the path cannot be opened, the geometry column is missing or the
\* writing fails, leaves the file untouched or absent, or completely written:
\* never a part of the document, never an emptied file.
C18_NoPartialFile ==
    (xcall.op = "to_file" /\ (xout.status /= "returned" \/ ~xout.content.written))
        => xout.destination \in {"untouched", "written"}


-----------------------------------------------------------------------------
(* Further claims about the stop phrases, checked under SpecPlanner.       *)

\* the query of the last select() as the stop phrases are looked for in it
screened == lower(rstrip(rstrip(lstrip(call.text, Whitespace), Whitespace), {";"}))

\* C21 (as stated): select() rejects as unsafe a read-only query whose where
\* clause references a column named drop_id.
C21_RejectsDropId ==
    (/\ call.op = "select"
     /\ startswith(screened, <<"s","e","l","e","c","t"," ">>)
     /\ contains(screened, <<" ","w","h","e","r","e"," ","d","r","o","p","_","i","d"," ">>))
        => result.status = "UnsafeExpressionError"

\* C21 (amended): the stop phrases over-trigger on identifiers that end in a
\* stop word and are followed by a space: select() rejects a read-only query
\* whose where clause references a column named last_update, with nothing
\* sent; a query is rejected only for a stop phrase with its closing space, so
\* a column named drop_id alone does not make a query unsafe.
C21_OverTriggersBeforeSpace ==
    call.op = "select" =>
        /\ contains(screened, <<" ","w","h","e","r","e"," ","l","a","s","t","_","u","p","d","a","t","e"," ">>)
              => (result.status = "UnsafeExpressionError" /\ sent = <<>>)
        /\ result.status = "UnsafeExpressionError"
              <=> \E p \in stop_phrases : contains(screened, p)

\* "select a from t where last_update > 0" was rejected although it only
\* reads, and nothing was sent.
C21_Witness ==
    /\ call.op = "select"
    /\ call.text = <<"s","e","l","e","c","t"," ","a"," ","f","r","o","m"," ","t"," ","w","h","e","r","e"," ","l","a","s","t","_","u","p","d","a","t","e"," ",">"," ","0">>
    /\ result.status = "UnsafeExpressionError"
    /\ sent = <<>>


\* C24: beautify_dataframe and every exporter leave the DataFrame of their
\* caller as it was handed to them: the same column names, dtypes, index and
\* values after the call as before it.
C24_InputUnmodified ==
    /\ xcall.op \in {"to_file", "to_buffer"} => frame = given
    /\ (xcall.op = "none" /\ passes >= 1) => prev = given

\* A DataFrame with a float column holding 2.0 was written as csv: the cell
\* reads 2, and the caller's column is float64 with 2.0 as before.
C24_Witness ==
    /\ xcall.op = "to_file"
    /\ xout.writers = <<"to_csv">>
    /\ xout.content.written
    /\ ncols(frame) = 1 /\ nrows(frame) = 2
    /\ xout.content.rows[1][1].v = <<"2">>
    /\ frame.cols[1].dtype = "float64"
    /\ frame.cols[1].vals[1] = FloatV(4)
    /\ frame = given


-----------------------------------------------------------------------------
(* Claims about the renaming of labels, checked under SpecRename.          *)

\* C25: for every sequence of column names, those that look like generated
\* names included, the renaming of beautify_dataframe ends and gives pairwise
\* distinct names, as many as before and in the same order: each is the name
\* at its place, kept or suffixed.
C25_RenamedDistinct ==
    /\ Len(renaming.after) = Len(renaming.before)
    /\ \A i, j \in 1..Len(renaming.after) :
          renaming.after[i] = renaming.after[j] => i = j
    /\ \A j \in 1..Len(renaming.after) :
          startswith(renaming.after[j], renaming.before[j])

\* ["id", "id", "id_0"] became ["id_0_0", "id_1", "id_0_1"].
C25_Witness ==
    /\ renaming.before = << <<"i","d">>, <<"i","d">>, <<"i","d","_","0">> >>
    /\ renaming.after = << <<"i","d","_","0","_","0">>, <<"i","d","_","1">>, <<"i","d","_","0","_","1">> >>

\* C26 (as stated): the renaming changes duplicated names only: a column
\* whose name occurs once among the names keeps it.
C26_UniqueNamesKept ==
    \A j \in 1..Len(renaming.before) :
        occurrences(renaming.before, renaming.before[j]) = 1
            => renaming.after[j] = renaming.before[j]


-----------------------------------------------------------------------------
(* Claims about a result on its way from the planner into a file, checked  *)
(* under SpecPipeline.                                                     *)

\* C30 (as stated): the crs name written into a GeoJSON file for a table or a
\* query result is never null, also when the first row holds no geometry: it
\* is "urn:ogc:def:crs:EPSG::" followed by an integer, or another text that is
\* not empty.
C30_CrsNameNeverNull ==
    (/\ xcall.op = "to_file"
     /\ call.op \in {"select", "get_table"}
     /\ xout.content.written
     /\ xout.content.fmt = "geojson")
        => /\ xout.content.crs_name.t = "str"
           /\ xout.content.crs_name.s /= <<>>


\* C22: in interactive mode, after any sequence of \c / \use_centroids
\* toggles, a \s <table> command fetches the geometry columns as centroids
\* exactly when the setting is on: the use_centroids argument of the
\* get_table call it makes equals the session's use_centroids.
C22_SelectUsesCentroidSetting ==
    (/\ startswith(session.last.input, <<"\\","s"," ">>)
     /\ session.last.planned.op = "get_table"
     /\ session.last.ended = "reset")
        => session.last.planned.flag = session.settings.use_centroids


\* C23: in interactive mode, a command that starts with a double quote and
\* has its closing quote on the same line is executed as a select with the
\* text between the quotes, and its result is saved when "> filename"
\* follows the closing quote (and only then).
closed_on_line(line) ==
    line /= <<>> /\ line[1] = "\"" /\ \E i \in 2..Len(line) : line[i] = "\""
between_quotes(line) ==
    LET closing == CHOOSE i \in 2..Len(line) :
                       line[i] = "\"" /\ \A j \in 2..(i - 1) : line[j] /= "\""
    IN  SubSeq(line, 2, closing - 1)
C23_QuotedLineIsSelected ==
    closed_on_line(session.last.input)
        => /\ session.last.planned.op = "select"
           /\ session.last.planned.text = between_quotes(session.last.input)
           /\ session.last.saved /= NoneV => contains(session.last.input, <<">">>)
           /\ (session.last.ended = "reset" /\ contains(session.last.input, <<">">>))
                  => session.last.saved /= NoneV


\* C27: the interactive loop is left on Ctrl+C only when the prompt
\* immediately before it was ended by Ctrl+C as well: any command handled
\* in between (done, rejected for a missing argument, or ended in a
\* reported error) resets the count of interrupts.
C27_ExitNeedsTwoInterruptsInARow ==
    (session.state = "left" /\ session.last.input = CtrlC)
        => session.previous = "interrupt"


\* C28: in interactive mode, a command that ends in a reported error (table
\* or column not found, undefined function, syntax error, unsafe
\* expression, or any other exception, an empty input line included)
\* leaves geometry_column, use_centroids and execute_as_is as they were,
\* and the loop goes on to the next prompt.
C28_ErrorKeepsSession ==
    session.last.error /= "none"
        => /\ session.settings = session.last.settings
           /\ session.state = "running"


\* C29: in interactive mode, an unquoted one-line query is passed to the
\* planner with its complete text, and a file is written only when
\* "> filename" is appended to it: a ">" that is a comparison operator of
\* the query neither truncates the executed query nor names a file.
names_file(line) ==
    LET gt == rfind(line, ">")
        tail == strip(SubSeq(line, gt + 1, Len(line)))
    IN  gt > 0 /\ tail /= <<>> /\ ~contains(tail, <<" ">>)
C29_ComparisonIsNotRedirection ==
    (startswith(session.last.input, <<"s","e","l","e","c","t"," ">>) /\ ~names_file(session.last.input))
        => /\ session.last.planned.text = session.last.input
           /\ session.last.saved = NoneV

=============================================================================
